---- MODULE Spec2Model ----
(***************************************************************************)
(* Channel control engine of the thermostat firmware: the two             *)
(* ChannelState instances, their PID controllers, the i_set DAC path, the  *)
(* PWM limit outputs, the shutdown pins and the commands that drive them.  *)
(*                                                                         *)
(* Fixed-point conventions (the firmware computes in f64):                 *)
(*   - DAC voltages are integers in units of 1/VSub of one AD5680 LSB,     *)
(*     so DAC_OUT_V_MAX (3.0 V) is AD5680_MAX_VALUE * VSub units;          *)
(*   - setpoint currents (i_set, PID outputs and bounds) are integers in   *)
(*     the unit whose image through 10 * R_SENSE (0.5 V/A) is one voltage  *)
(*     unit, so MAX_TEC_I (2.0 A <-> 1.0 V) is DAC_OUT_V_MAX / 3 units;    *)
(*   - limit currents and voltages (output_limits) are in mA and mV;       *)
(*   - temperatures are in tenths of a degree Celsius, ADC input voltages  *)
(*     in mV, resistances in ohm.                                          *)
(***************************************************************************)
EXTENDS Integers, Sequences, FiniteSets, TLC

VARIABLES
    channels,   \* struct Channels: both Channel structs and the PWM pins
    halted,     \* TRUE once a panic has stopped the firmware (panic_halt)
    sampled,    \* per channel: the raw code of the last serviced sample, -1 before the first
    timer_ms,   \* TIMER_MS, the millisecond counter
    last,       \* the operation executed by the last step and what it returned
    cpu,        \* interrupt masking, the RefCell of TIMER_MS and the thread inside now()/sleep()
    net,        \* the TCP sockets of the server and the main loop's should_reset
    boot,       \* the locals of Channels::new while it calibrates the DACs
    sess        \* a Session, the bytes fed to it and the socket they come from

vars == <<channels, halted, sampled, timer_ms, last, cpu, net, boot, sess>>

----------------------------------------------------------------------------
(* Bounds of the model *)

\* voltage units per DAC LSB
VSub == 4

\* the sockets of the server that are followed (SOCKET_COUNT is 4)
SocketsFollowed == 2

\* the size of a socket's send buffer in bytes (TCP_TX_BUFFER_SIZE is 2048)
TxCapacity == 5

\* the capacity of the line buffer of a LineReader in bytes (MAX_LINE_LEN,
\* 64 in session.rs), scaled to the length of the longest command line of
\* the model, `output 0 pid`
MAX_LINE_LEN == 12

\* the connections that a socket accepts one after the other
MaxConnections == 2

\* the size of a socket's receive buffer in bytes (TCP_RX_BUFFER_SIZE is 2048)
RxCapacity == 3

\* the bytes of lines a client sends before the session has read them
MaxConnLine == 2

----------------------------------------------------------------------------
(* Program constants *)

CHANNELS == 2
Channel == 0 .. (CHANNELS - 1)

\* ad7172::MAX_VALUE = 0xFF_FFFF
AD7172_MAX_VALUE == 16777215
\* ad5680::MAX_VALUE = 0x3FFFF (18 bit DAC)
AD5680_MAX_VALUE == 262143
\* 3.0 V
DAC_OUT_V_MAX == AD5680_MAX_VALUE * VSub
\* 2.0 A, in setpoint-current units
MAX_TEC_I == DAC_OUT_V_MAX \div 3
\* 10.0 * R_SENSE, voltage units per setpoint-current unit
TEN_R_SENSE == 1
\* 2.0 A and 4.0 V in the limit units (mA, mV)
MAX_TEC_I_MA == 2000
MAX_TEC_V == 4000
\* 3.3 V in mV
CPU_ADC_VREF == 3300
\* period of the 20 kHz PWM timers (TIM3: max_v, TIM1: max_i_pos / max_i_neg)
PWM_PERIOD_TIM3 == 2100
PWM_PERIOD_TIM1 == 4200
\* 2.0 * 5100.0 ohm
R_INNER == 10200
\* 3.3 / 2.0 V in mV
VREF_SENS == 1650

Min(a, b) == IF a < b THEN a ELSE b
Max(a, b) == IF a > b THEN a ELSE b

\* Option<T>
NoneV == [some |-> FALSE, v |-> 0]
Some(x) == [some |-> TRUE, v |-> x]

Polarities == {"Normal", "Reversed"}
\* CenterPoint::VRef | CenterPoint::Override(v)
CenterVRef == [tag |-> "VRef", v |-> 0]
CenterOverride(x) == [tag |-> "Override", v |-> x]

----------------------------------------------------------------------------
(* pid.rs *)

Parameters_default ==
    [kp |-> 0, ki |-> 0, kd |-> 0, output_min |-> -MAX_TEC_I, output_max |-> MAX_TEC_I]

Controller_new(parameters) ==
    [parameters |-> parameters, target |-> 0, u1 |-> 0, x1 |-> 0, x2 |-> 0, y1 |-> 0]

\* f64::clamp panics when min > max
clamp_panics(lo, hi) == lo > hi
clamp(x, lo, hi) == IF x < lo THEN lo ELSE IF x > hi THEN hi ELSE x

\* Controller::update without the upper bound of the clamp
Controller_update_unbounded_above(pid, input) ==
    LET kp == pid.parameters.kp
        ki == pid.parameters.ki
        kd == pid.parameters.kd
        raw == pid.y1 - ki * pid.target
                 + input * (kp + ki + kd)
                 - pid.x1 * (kp + 2 * kd)
                 + pid.x2 * kd
        panic == clamp_panics(pid.parameters.output_min, pid.parameters.output_max)
        output == Max(raw, pid.parameters.output_min)
    IN  IF panic
        THEN [pid |-> pid, output |-> 0, panic |-> TRUE]
        ELSE [pid |-> [pid EXCEPT !.x2 = pid.x1, !.x1 = input, !.u1 = pid.target, !.y1 = output],
              output |-> output, panic |-> FALSE]

\* Controller::update with the input itself added to the output
Controller_update_adds_input(pid, input) ==
    LET kp == pid.parameters.kp
        ki == pid.parameters.ki
        kd == pid.parameters.kd
        raw == pid.y1 - ki * pid.target
                 + input * (kp + ki + kd + 1)
                 - pid.x1 * (kp + 2 * kd)
                 + pid.x2 * kd
        panic == clamp_panics(pid.parameters.output_min, pid.parameters.output_max)
        output == clamp(raw, pid.parameters.output_min, pid.parameters.output_max)
    IN  IF panic
        THEN [pid |-> pid, output |-> 0, panic |-> TRUE]
        ELSE [pid |-> [pid EXCEPT !.x2 = pid.x1, !.x1 = input, !.u1 = pid.target, !.y1 = output],
              output |-> output, panic |-> FALSE]

\* Controller::update that does not move x1 to x2
Controller_update_keeps_x2(pid, input) ==
    LET kp == pid.parameters.kp
        ki == pid.parameters.ki
        kd == pid.parameters.kd
        raw == pid.y1 - ki * pid.target
                 + input * (kp + ki + kd)
                 - pid.x1 * (kp + 2 * kd)
                 + pid.x2 * kd
        panic == clamp_panics(pid.parameters.output_min, pid.parameters.output_max)
        output == clamp(raw, pid.parameters.output_min, pid.parameters.output_max)
    IN  IF panic
        THEN [pid |-> pid, output |-> 0, panic |-> TRUE]
        ELSE [pid |-> [pid EXCEPT !.x1 = input, !.u1 = pid.target, !.y1 = output],
              output |-> output, panic |-> FALSE]

\* Controller::update: the new controller, the output and whether the clamp panicked
Controller_update(pid, input) ==
    LET kp == pid.parameters.kp
        ki == pid.parameters.ki
        kd == pid.parameters.kd
        raw == pid.y1 - ki * pid.target
                 + input * (kp + ki + kd)
                 - pid.x1 * (kp + 2 * kd)
                 + pid.x2 * kd
        panic == clamp_panics(pid.parameters.output_min, pid.parameters.output_max)
        output == clamp(raw, pid.parameters.output_min, pid.parameters.output_max)
    IN  IF panic
        THEN [pid |-> pid, output |-> 0, panic |-> TRUE]
        ELSE [pid |-> [pid EXCEPT !.x2 = pid.x1, !.x1 = input, !.u1 = pid.target, !.y1 = output],
              output |-> output, panic |-> FALSE]

----------------------------------------------------------------------------
(* channel_state.rs *)

\* b_parameter::Parameters::default: t0 = 25 C, r0 = 10 kOhm, b = 3800 K
bp_Parameters_default == [t0 |-> 250, r0 |-> 10000, b |-> 3800]

OutputLimits_zero == [max_v |-> 0, max_i_pos |-> 0, max_i_neg |-> 0]

ChannelState_new ==
    [adc_data |-> NoneV,
     adc_time |-> 0,
     adc_interval |-> 100,
     center |-> CenterVRef,
     dac_value |-> 0,
     i_set |-> 0,
     output_limits |-> OutputLimits_zero,
     pid_engaged |-> FALSE,
     pid |-> Controller_new(Parameters_default),
     bp |-> bp_Parameters_default,
     polarity |-> "Normal"]

\* ChannelState::update that keeps the previous sample when the sentinel arrives
ChannelState_update_keeps_stale(st, now, adc_data) ==
    [st EXCEPT !.adc_data = IF adc_data = AD7172_MAX_VALUE THEN st.adc_data ELSE Some(adc_data),
               !.adc_interval = now - st.adc_time,
               !.adc_time = now]

\* ChannelState::update that does not recognise the sentinel
ChannelState_update_no_sentinel(st, now, adc_data) ==
    [st EXCEPT !.adc_data = Some(adc_data),
               !.adc_interval = now - st.adc_time,
               !.adc_time = now]

\* ChannelState::update
ChannelState_update(st, now, adc_data) ==
    [st EXCEPT !.adc_data = IF adc_data = AD7172_MAX_VALUE THEN NoneV ELSE Some(adc_data),
               !.adc_interval = now - st.adc_time,
               !.adc_time = now]

\* ChannelCalibration::convert_data with the nominal calibration: code / 2^24 * 1.65 V, in mV
convert_data(data) == ((data \div 256) * VREF_SENS) \div 65536

\* b_parameter::Parameters::get_temperature: 1/T = 1/T0 + ln(r/r0)/b, in tenths of
\* a degree Celsius, tabulated for the default parameters and the resistances
\* of the sampled codes (9979 ohm -> 25.05 C, 7916 ohm -> 30.57 C) and of the
\* full-scale code (16819800 ohm -> -84.8 C)
bp_get_temperature(bp, r) ==
    CASE bp = bp_Parameters_default /\ r = 9979 -> 250
      [] bp = bp_Parameters_default /\ r = 7916 -> 305
      [] bp = bp_Parameters_default /\ r = 16819800 -> -848

get_adc(st) == IF st.adc_data.some THEN Some(convert_data(st.adc_data.v)) ELSE NoneV

get_sens(st) ==
    LET adc_input == get_adc(st)
    IN  IF adc_input.some
        THEN Some((R_INNER * adc_input.v) \div (VREF_SENS - adc_input.v))
        ELSE NoneV

get_temperature(st) ==
    LET r == get_sens(st)
    IN  IF r.some THEN Some(bp_get_temperature(st.bp, r.v)) ELSE NoneV

\* ChannelState::update_pid
update_pid(st) ==
    LET temperature == get_temperature(st)
        u == Controller_update(st.pid, temperature.v)
    IN  IF ~temperature.some
        THEN [st |-> st, out |-> NoneV, panic |-> FALSE]
        ELSE IF u.panic
        THEN [st |-> st, out |-> NoneV, panic |-> TRUE]
        ELSE [st |-> [st EXCEPT !.pid = u.pid], out |-> Some(u.output), panic |-> FALSE]

----------------------------------------------------------------------------
(* channels.rs *)

PwmPins == {"MaxIPos", "MaxINeg", "MaxV"}

\* Channels::channel_state
channel_state(chs, channel) == chs.channel[channel].state

with_state(chs, channel, st) == [chs EXCEPT !.channel[channel].state = st]

\* a write to a device, recorded in the order the handler performs it
logged(chs, dev, channel, value) ==
    [chs EXCEPT !.io = Append(@, [dev |-> dev, channel |-> channel, value |-> value])]

\* f64 as u32: truncates toward zero and saturates, a negative value gives 0
as_u32(num, den) == IF num < 0 THEN 0 ELSE num \div den

\* ad5680::Dac::set: the code is limited to the 18 bits of the DAC
Dac_set(chs, channel, value) ==
    logged([chs EXCEPT !.channel[channel].dac = Min(value, AD5680_MAX_VALUE)],
           "dac", channel, Min(value, AD5680_MAX_VALUE))

\* the output voltage of a DAC code: code / MAX_VALUE * DAC_OUT_V_MAX
dac_code_voltage(value) == value * VSub

\* Channels::set_dac. (voltage / DAC_OUT_V_MAX) * MAX_VALUE is voltage / VSub.
set_dac(chs, channel, voltage) ==
    LET value == as_u32(voltage, VSub)
        written == Dac_set(chs, channel, value)
    IN  [chs |-> [written EXCEPT !.channel[channel].state.dac_value = voltage],
         ret |-> voltage]

negate_of(polarity) == IF polarity = "Normal" THEN 1 ELSE -1

\* the clamp of set_i without its upper bound
clamp_i_set_lower_only(i_set) == Max(i_set, -MAX_TEC_I)

\* i_set.min(MAX_TEC_I).max(-MAX_TEC_I)
clamp_i_set(i_set) == Max(Min(i_set, MAX_TEC_I), -MAX_TEC_I)

\* Channels::set_i centred on the previous DAC voltage instead of vref_meas
set_i_relative(chs, channel, i_set_req) ==
    LET i_set == clamp_i_set(i_set_req)
        chs1 == [chs EXCEPT !.channel[channel].state.i_set = i_set]
        negate == negate_of(channel_state(chs1, channel).polarity)
        center_point == channel_state(chs1, channel).dac_value
        voltage == negate * i_set * TEN_R_SENSE + center_point
        d == set_dac(chs1, channel, voltage)
    IN  [chs |-> d.chs,
         ret |-> (negate * (d.ret - center_point)) \div TEN_R_SENSE]

\* Channels::set_i
set_i(chs, channel, i_set_req) ==
    LET i_set == clamp_i_set(i_set_req)
        chs1 == [chs EXCEPT !.channel[channel].state.i_set = i_set]
        negate == negate_of(channel_state(chs1, channel).polarity)
        vref_meas == chs1.channel[channel].vref_meas
        center_point == vref_meas
        voltage == negate * i_set * TEN_R_SENSE + center_point
        d == set_dac(chs1, channel, voltage)
    IN  [chs |-> d.chs,
         ret |-> (negate * (d.ret - center_point)) \div TEN_R_SENSE]

\* Channel::power_up / Channel::power_down: the level of the driver's shutdown
\* pin, high when the TEC driver is powered
Channel_power_up(ch) == [ch EXCEPT !.shdn = TRUE]
Channel_power_down(ch) == [ch EXCEPT !.shdn = FALSE]

\* Channels::power_up
power_up(chs, channel) ==
    logged([chs EXCEPT !.channel[channel] = Channel_power_up(@)], "shdn", channel, 1)

\* a power-down that pulls the shutdown pins of both channels low
power_down_both(chs, channel) ==
    logged([chs EXCEPT !.channel = [c \in Channel |-> Channel_power_down(@[c])]],
           "shdn", channel, 0)

\* Channels::power_down
power_down(chs, channel) ==
    logged([chs EXCEPT !.channel[channel] = Channel_power_down(@)], "shdn", channel, 0)

\* the match on update_pid's result without its power-down arm
forward_pid_output_holds_setpoint(chs, channel, pid_output) ==
    LET engaged == channel_state(chs, channel).pid_engaged
    IN  IF pid_output.some /\ engaged
        THEN LET s == set_i(chs, channel, pid_output.v)
             IN  [chs |-> power_up(s.chs, channel), set_i_ret |-> Some(s.ret)]
        ELSE [chs |-> chs, set_i_ret |-> NoneV]

\* the match on update_pid's result in Channels::poll_adc: the new Channels and
\* what set_i returned when it was called
forward_pid_output(chs, channel, pid_output) ==
    LET engaged == channel_state(chs, channel).pid_engaged
    IN  IF pid_output.some /\ engaged
        THEN LET s == set_i(chs, channel, pid_output.v)
             IN  [chs |-> power_up(s.chs, channel), set_i_ret |-> Some(s.ret)]
        ELSE IF ~pid_output.some /\ engaged
        THEN [chs |-> power_down(chs, channel), set_i_ret |-> NoneV]
        ELSE [chs |-> chs, set_i_ret |-> NoneV]

\* Channels::poll_adc once the ADC reported a conversion of `channel` with code
\* `data`; a panic in the PID update leaves the call unfinished
poll_adc(chs, instant, channel, data) ==
    LET st1 == ChannelState_update(channel_state(chs, channel), instant, data)
        u == update_pid(st1)
        f == forward_pid_output(with_state(chs, channel, u.st), channel, u.out)
    IN  IF u.panic
        THEN [chs |-> with_state(chs, channel, st1), ret |-> NoneV,
              set_i_ret |-> NoneV, panic |-> TRUE]
        ELSE [chs |-> f.chs, ret |-> Some(channel), set_i_ret |-> f.set_i_ret,
              panic |-> FALSE]

\* Channels::poll_adc when the SPI transfer `fault` returns Err: data_ready,
\* read_data and Dac::set are followed by unwrap(), which panics on Err.  The
\* DAC is written only when an engaged PID produced an output, after
\* update and update_pid changed the state and before set_dac stores
\* dac_value; without that write the fault does not occur
poll_adc_fault(chs, instant, channel, data, fault) ==
    LET st1 == ChannelState_update(channel_state(chs, channel), instant, data)
        u == update_pid(st1)
        writes_dac == ~u.panic /\ u.out.some /\ u.st.pid_engaged
    IN  IF fault \in {"data_ready", "read_data"}
        THEN [chs |-> chs, ret |-> NoneV, set_i_ret |-> NoneV, panic |-> TRUE]
        ELSE IF writes_dac
        THEN [chs |-> with_state(chs, channel, u.st), ret |-> NoneV,
              set_i_ret |-> NoneV, panic |-> TRUE]
        ELSE poll_adc(chs, instant, channel, data)

\* hal::PwmPin::get_max_duty: the period of the 20 kHz PWM timers
get_max_duty(pin) == IF pin = "MaxV" THEN PWM_PERIOD_TIM3 ELSE PWM_PERIOD_TIM1

\* Channels::set_pwm rounding the duty up to the next counter value
set_pwm_rounds_up(chs, channel, pin, num, den) ==
    LET max == get_max_duty(pin)
        value == Min(as_u32(num * max + den - 1, den), max)
    IN  [chs |-> logged([chs EXCEPT !.pwm[channel][pin] = value], pin, channel, value),
         value |-> value, max |-> max]

\* Channels::set_pwm with duty = num / den: the duty value written and the pin's maximum
set_pwm(chs, channel, pin, num, den) ==
    LET max == get_max_duty(pin)
        value == Min(as_u32(num * max, den), max)
    IN  [chs |-> logged([chs EXCEPT !.pwm[channel][pin] = value], pin, channel, value),
         value |-> value, max |-> max]

\* Channels::set_max_v: duty = max_v / 4.0 / CPU_ADC_VREF; achieved = ret_num / ret_den mV
set_max_v(chs, channel, max_v_req) ==
    LET max_v == Max(Min(max_v_req, MAX_TEC_V), 0)
        chs1 == [chs EXCEPT !.channel[channel].state.output_limits.max_v = max_v]
        p == set_pwm(chs1, channel, "MaxV", max_v, 4 * CPU_ADC_VREF)
    IN  [chs |-> p.chs, ret_num |-> 4 * p.value * CPU_ADC_VREF, ret_den |-> p.max,
         ceiling |-> MAX_TEC_V]

\* Channels::set_max_i_pos storing the request without the clamp
set_max_i_pos_stores_request(chs, channel, max_i_pos_req) ==
    LET pin == IF channel_state(chs, channel).polarity = "Normal" THEN "MaxIPos" ELSE "MaxINeg"
        max_i_pos == Max(Min(max_i_pos_req, MAX_TEC_I_MA), 0)
        chs1 == [chs EXCEPT !.channel[channel].state.output_limits.max_i_pos = max_i_pos_req]
        p == set_pwm(chs1, channel, pin, max_i_pos, 2 * CPU_ADC_VREF)
    IN  [chs |-> p.chs, ret_num |-> 2 * p.value * CPU_ADC_VREF, ret_den |-> p.max,
         ceiling |-> MAX_TEC_I_MA]

\* Channels::set_max_i_pos: duty = 10.0 * max_i_pos * R_SENSE / CPU_ADC_VREF
set_max_i_pos(chs, channel, max_i_pos_req) ==
    LET pin == IF channel_state(chs, channel).polarity = "Normal" THEN "MaxIPos" ELSE "MaxINeg"
        max_i_pos == Max(Min(max_i_pos_req, MAX_TEC_I_MA), 0)
        chs1 == [chs EXCEPT !.channel[channel].state.output_limits.max_i_pos = max_i_pos]
        p == set_pwm(chs1, channel, pin, max_i_pos, 2 * CPU_ADC_VREF)
    IN  [chs |-> p.chs, ret_num |-> 2 * p.value * CPU_ADC_VREF, ret_den |-> p.max,
         ceiling |-> MAX_TEC_I_MA]

\* Channels::set_max_i_neg
set_max_i_neg(chs, channel, max_i_neg_req) ==
    LET pin == IF channel_state(chs, channel).polarity = "Normal" THEN "MaxINeg" ELSE "MaxIPos"
        max_i_neg == Max(Min(max_i_neg_req, MAX_TEC_I_MA), 0)
        chs1 == [chs EXCEPT !.channel[channel].state.output_limits.max_i_neg = max_i_neg]
        p == set_pwm(chs1, channel, pin, max_i_neg, 2 * CPU_ADC_VREF)
    IN  [chs |-> p.chs, ret_num |-> 2 * p.value * CPU_ADC_VREF, ret_den |-> p.max,
         ceiling |-> MAX_TEC_I_MA]

\* Channels::adc_read of one averaged 12 bit sample of the CPU ADC:
\* PinsAdc::sample_to_millivolts scales it by the 3300 mV supply
adc_read(sample) == (sample * 3300) \div 4095

\* ElectricPotential::new::<millivolt>
millivolt(mv) == ((mv * AD5680_MAX_VALUE) \div 3000) * VSub

\* Channels::get_center for the averaged sample vref of the reference input
get_center(chs, channel, vref) ==
    IF channel_state(chs, channel).center.tag = "VRef"
    THEN millivolt(adc_read(vref))
    ELSE channel_state(chs, channel).center.v

\* adc_read(channel, DacVfb, 64) while the DAC holds value, for the transfer
\* function tf of the DAC and its feedback path
dac_feedback(tf, value) == (value * tf.num) \div tf.den + tf.offset

\* ElectricPotential::new::<volt>(100.0), the best_error the search starts with
best_error_start == (100 * DAC_OUT_V_MAX) \div 3

RECURSIVE sweep_past_overshoot(_, _, _, _, _)
\* the inner loop of calibrate_dac_value without the break on a negative error
sweep_past_overshoot(value, step, target_voltage, tf, search) ==
    IF value > AD5680_MAX_VALUE
    THEN search
    ELSE LET error == target_voltage - dac_feedback(tf, value)
             written == [search EXCEPT !.dac = value]
         IN  IF error < search.best_error
             THEN sweep_past_overshoot(value + 2^step, step, target_voltage, tf,
                        [written EXCEPT !.best_error = error,
                                        !.start_value = value,
                                        !.vref = Some(dac_code_voltage(value))])
             ELSE sweep_past_overshoot(value + 2^step, step, target_voltage, tf, written)

RECURSIVE sweep(_, _, _, _, _)
\* the inner loop of calibrate_dac_value from value on: for value in
\* (start_value..=MAX_VALUE).step_by(1 << step)
sweep(value, step, target_voltage, tf, search) ==
    IF value > AD5680_MAX_VALUE
    THEN search
    ELSE LET error == target_voltage - dac_feedback(tf, value)
             written == [search EXCEPT !.dac = value]
         IN  IF error < 0
             THEN written
             ELSE IF error < search.best_error
             THEN sweep(value + 2^step, step, target_voltage, tf,
                        [written EXCEPT !.best_error = error,
                                        !.start_value = value,
                                        !.vref = Some(dac_code_voltage(value))])
             ELSE sweep(value + 2^step, step, target_voltage, tf, written)

RECURSIVE steps_without_finest(_, _, _, _)
\* the outer loop of calibrate_dac_value without its last step size, 2^5
steps_without_finest(step, target_voltage, tf, search) ==
    IF step < 6
    THEN search
    ELSE steps_without_finest(step - 1, target_voltage, tf,
               sweep(search.start_value, step, target_voltage, tf, search))

RECURSIVE steps(_, _, _, _)
\* the outer loop of calibrate_dac_value: for step in (5..18).rev()
steps(step, target_voltage, tf, search) ==
    IF step < 5
    THEN search
    ELSE steps(step - 1, target_voltage, tf,
               sweep(search.start_value, step, target_voltage, tf, search))

\* the search of calibrate_dac_value: the best error, the code it was found
\* at, the vref_meas assigned if any and the code the DAC was left at
search_dac_value(target_voltage, tf) ==
    steps(17, target_voltage, tf,
          [best_error |-> best_error_start, start_value |-> 1, vref |-> NoneV, dac |-> 0])

\* Channels::calibrate_dac_value for the reference sample vref and the
\* transfer function tf; of the DAC writes of the search the log keeps the last
calibrate_dac_value(chs, channel, vref, tf) ==
    LET target_voltage == get_center(chs, channel, vref)
        search == search_dac_value(target_voltage, tf)
        chs1 == IF search.vref.some
                THEN [chs EXCEPT !.channel[channel].vref_meas = search.vref.v]
                ELSE chs
        chs2 == logged([chs1 EXCEPT !.channel[channel].dac = search.dac],
                       "dac", channel, search.dac)
    IN  set_dac(chs2, channel, 0).chs

\* calibrate_dac_value before its loops, for the reference sample and the
\* transfer function of env: start_value = 1, best_error = 100 V, the first
\* step size 2^17 and the first candidate start_value.  improved tells
\* whether a candidate has been recorded as the best
calibrate_start(chs, channel, env) ==
    [pc |-> "sweep", channel |-> channel, env |-> env,
     target_voltage |-> get_center(chs, channel, env.vref),
     step |-> 17, value |-> 1, start_value |-> 1,
     best_error |-> best_error_start, improved |-> FALSE]

\* Channels::new once both channels are calibrated and set to 0 A
Boot_done ==
    [pc |-> "done", channel |-> 0, env |-> [vref |-> 0, tf |-> [num |-> 0, den |-> 1, offset |-> 0]],
     target_voltage |-> 0, step |-> 0, value |-> 0, start_value |-> 0,
     best_error |-> 0, improved |-> FALSE]

\* where the loops of calibrate_dac_value go after the candidate b.value:
\* the next candidate of the step size, the next smaller step size from the
\* best code, or the end of the search
calibrate_advance(b, leaves) ==
    IF ~leaves /\ b.value + 2^b.step <= AD5680_MAX_VALUE
    THEN [b EXCEPT !.value = b.value + 2^b.step]
    ELSE IF b.step > 5
    THEN [b EXCEPT !.step = b.step - 1, !.value = b.start_value]
    ELSE [b EXCEPT !.pc = "reset"]

\* the loop body that goes on with the step size after a negative error
calibrate_candidate_past_overshoot(chs, b) ==
    LET written == Dac_set(chs, b.channel, b.value)
        error == b.target_voltage - dac_feedback(b.env.tf, b.value)
        better == error >= 0 /\ error < b.best_error
    IN  IF better
        THEN [chs |-> [written EXCEPT !.channel[b.channel].vref_meas =
                                          dac_code_voltage(b.value)],
              boot |-> calibrate_advance([b EXCEPT !.best_error = error,
                                                   !.start_value = b.value,
                                                   !.improved = TRUE], FALSE)]
        ELSE [chs |-> written, boot |-> calibrate_advance(b, FALSE)]

\* the loop body that records a better candidate without assigning vref_meas
calibrate_candidate_keeps_vref(chs, b) ==
    LET written == Dac_set(chs, b.channel, b.value)
        error == b.target_voltage - dac_feedback(b.env.tf, b.value)
    IN  IF error < 0
        THEN [chs |-> written, boot |-> calibrate_advance(b, TRUE)]
        ELSE IF error < b.best_error
        THEN [chs |-> written,
              boot |-> calibrate_advance([b EXCEPT !.best_error = error,
                                                   !.start_value = b.value,
                                                   !.improved = TRUE], FALSE)]
        ELSE [chs |-> written, boot |-> calibrate_advance(b, FALSE)]

\* the body of the inner loop of calibrate_dac_value for the candidate
\* b.value: the DAC is set to it, the feedback is read after sleep(10), a
\* negative error breaks the loop, a smaller error is recorded with the
\* candidate and vref_meas
calibrate_candidate(chs, b) ==
    LET written == Dac_set(chs, b.channel, b.value)
        error == b.target_voltage - dac_feedback(b.env.tf, b.value)
    IN  IF error < 0
        THEN [chs |-> written, boot |-> calibrate_advance(b, TRUE)]
        ELSE IF error < b.best_error
        THEN [chs |-> [written EXCEPT !.channel[b.channel].vref_meas =
                                          dac_code_voltage(b.value)],
              boot |-> calibrate_advance([b EXCEPT !.best_error = error,
                                                   !.start_value = b.value,
                                                   !.improved = TRUE], FALSE)]
        ELSE [chs |-> written, boot |-> calibrate_advance(b, FALSE)]

\* Channels::set_polarity that leaves the limit pins as they are
set_polarity_keeps_pins(chs, channel, polarity) ==
    IF channel_state(chs, channel).polarity # polarity
    THEN LET i_set == channel_state(chs, channel).i_set
             chs1 == [chs EXCEPT !.channel[channel].state.polarity = polarity]
         IN  set_i(chs1, channel, i_set).chs
    ELSE chs

\* Channels::set_polarity without the test for an unchanged polarity
set_polarity_always_reapplies(chs, channel, polarity) ==
    LET i_set == channel_state(chs, channel).i_set
        max_i_pos == channel_state(chs, channel).output_limits.max_i_pos
        max_i_neg == channel_state(chs, channel).output_limits.max_i_neg
        chs1 == [chs EXCEPT !.channel[channel].state.polarity = polarity]
        chs2 == set_i(chs1, channel, i_set).chs
        chs3 == set_max_i_pos(chs2, channel, max_i_pos).chs
    IN  set_max_i_neg(chs3, channel, max_i_neg).chs

\* Channels::set_polarity
set_polarity(chs, channel, polarity) ==
    IF channel_state(chs, channel).polarity # polarity
    THEN LET i_set == channel_state(chs, channel).i_set
             max_i_pos == channel_state(chs, channel).output_limits.max_i_pos
             max_i_neg == channel_state(chs, channel).output_limits.max_i_neg
             chs1 == [chs EXCEPT !.channel[channel].state.polarity = polarity]
             chs2 == set_i(chs1, channel, i_set).chs
             chs3 == set_max_i_pos(chs2, channel, max_i_pos).chs
         IN  set_max_i_neg(chs3, channel, max_i_neg).chs
    ELSE chs

\* Channels::get_tec_i in half milliampere: (ITec - VRef) / 0.4 ohm, negated
\* when the polarity is Reversed
get_tec_i(chs, channel, aux) ==
    LET tec_i == (adc_read(aux.itec) - adc_read(aux.vref)) * 5
    IN  IF channel_state(chs, channel).polarity = "Normal" THEN tec_i ELSE -tec_i

\* Channels::get_tec_v in mV: (VTec - 1.5 V) * 4.0
get_tec_v(chs, channel, aux) == (adc_read(aux.vtec) - 1500) * 4

\* Channels::report that stores the DAC feedback reading as dac_value
report_stores_dac_feedback(chs, channel, aux) ==
    [chs |-> [chs EXCEPT !.channel[channel].state.dac_value = adc_read(aux.dac_vfb)],
     ret |-> [channel |-> channel, tec_i |-> get_tec_i(chs, channel, aux)]]

\* Channels::report: the Channels after the call and the Report
report(chs, channel, aux) ==
    LET state == channel_state(chs, channel)
    IN  [chs |-> chs,
         ret |-> [channel |-> channel,
                  time |-> state.adc_time,
                  interval |-> state.adc_interval,
                  adc |-> get_adc(state),
                  sens |-> get_sens(state),
                  temperature |-> get_temperature(state),
                  pid_engaged |-> state.pid_engaged,
                  i_set |-> state.i_set,
                  dac_value |-> state.dac_value,
                  dac_feedback |-> adc_read(aux.dac_vfb),
                  i_tec |-> adc_read(aux.itec),
                  tec_i |-> get_tec_i(chs, channel, aux),
                  tec_u_meas |-> get_tec_v(chs, channel, aux),
                  pid_output |-> state.pid.y1]]

\* Channels::reports_json: report(0), then report(1)
reports_json(chs, aux) ==
    LET r0 == report(chs, 0, aux)
        r1 == report(r0.chs, 1, aux)
    IN  [chs |-> r1.chs, ret |-> <<r0.ret, r1.ret>>]

\* Channels::pid_summaries_json
pid_summaries_json(chs) ==
    [chs |-> chs,
     ret |-> [c \in Channel |-> [channel |-> c,
                                 parameters |-> channel_state(chs, c).pid.parameters,
                                 target |-> channel_state(chs, c).pid.target]]]

\* Channels::pid_engaged
pid_engaged(chs) ==
    [chs |-> chs, ret |-> \E c \in Channel : channel_state(chs, c).pid_engaged]

\* Channels::output_summaries_json
output_summaries_json(chs) ==
    [chs |-> chs,
     ret |-> [c \in Channel |-> [channel |-> c,
                                 center |-> channel_state(chs, c).center,
                                 i_set |-> channel_state(chs, c).i_set,
                                 max_v |-> channel_state(chs, c).output_limits.max_v,
                                 max_i_pos |-> channel_state(chs, c).output_limits.max_i_pos,
                                 max_i_neg |-> channel_state(chs, c).output_limits.max_i_neg,
                                 polarity |-> channel_state(chs, c).polarity]]]

\* PostFilter::output_rate in samples per 1000 s
output_rate(filter) ==
    CASE filter = "F27SPS" -> Some(27270)
      [] filter = "F25SPS" -> Some(25000)
      [] filter = "F20SPS" -> Some(20000)
      [] filter = "F16SPS" -> Some(16667)
      [] OTHER -> NoneV

\* PostFilter::VALID_VALUES, the menu in the order closest scans it
VALID_VALUES == <<"F27SPS", "F25SPS", "F20SPS", "F16SPS">>

\* the loop body of closest keeping a candidate that is as close as the best
closest_step_keeps_last_equal(best, value, rate) ==
    LET r == output_rate(value).v
        error == IF rate >= r THEN rate - r ELSE r - rate
        better == IF best.some THEN error <= best.v.error ELSE TRUE
    IN  IF better THEN Some([error |-> error, value |-> value]) ELSE best

\* the loop body of closest with unwrap_or(false): no candidate is better
\* than none
closest_step_never_first(best, value, rate) ==
    LET r == output_rate(value).v
        error == IF rate >= r THEN rate - r ELSE r - rate
        better == IF best.some THEN error < best.v.error ELSE FALSE
    IN  IF better THEN Some([error |-> error, value |-> value]) ELSE best

\* PostFilter::closest, the body of its loop: best is Option<(error, value)>
closest_step(best, value, rate) ==
    LET r == output_rate(value).v
        error == IF rate >= r THEN rate - r ELSE r - rate
        better == IF best.some THEN error < best.v.error ELSE TRUE
    IN  IF better THEN Some([error |-> error, value |-> value]) ELSE best

RECURSIVE closest_scan(_, _, _)
\* PostFilter::closest, the loop over VALID_VALUES from index i
closest_scan(best, i, rate) ==
    IF i > Len(VALID_VALUES) THEN best
    ELSE closest_scan(closest_step(best, VALID_VALUES[i], rate), i + 1, rate)

\* PostFilter::closest(rate), the rate in milli-SPS: Option<PostFilter>
closest(rate) ==
    LET best == closest_scan([some |-> FALSE], 1, rate)
    IN  IF best.some THEN Some(best.v.value) ELSE [some |-> FALSE]

\* Channels::postfilter_summaries_json
postfilter_summaries_json(chs) ==
    [chs |-> chs,
     ret |-> [c \in Channel |-> [channel |-> c, rate |-> output_rate(chs.postfilter[c])]]]

\* Channels::b_parameter_summaries_json
b_parameter_summaries_json(chs) ==
    [chs |-> chs,
     ret |-> [c \in Channel |-> [channel |-> c, params |-> channel_state(chs, c).bp]]]

\* Channels::current_abs_max_tec_i
current_abs_max_tec_i(chs, aux) ==
    LET abs(c) == IF get_tec_i(chs, c, aux) < 0 THEN -get_tec_i(chs, c, aux)
                  ELSE get_tec_i(chs, c, aux)
    IN  [chs |-> chs, ret |-> Max(abs(0), abs(1))]

----------------------------------------------------------------------------
(* config.rs *)

\* the unit in the last place of the f32 nearest to a magnitude: an f32 has 24
\* significant binary digits
RECURSIVE f32_ulp(_)
f32_ulp(a) == IF a < 2^24 THEN 1 ELSE 2 * f32_ulp(a \div 2)

\* `as f32` of an f64 with an integral value: the nearest f32, ties to even
as_f32(x) ==
    LET a == IF x < 0 THEN -x ELSE x
        q == f32_ulp(a)
        lo == (a \div q) * q
        r == a - lo
        m == IF 2 * r < q THEN lo
             ELSE IF 2 * r > q THEN lo + q
             ELSE IF (lo \div q) % 2 = 0 THEN lo ELSE lo + q
    IN  IF x < 0 THEN -m ELSE m

\* ChannelConfig::new that stores the setpoint of an engaged channel too
ChannelConfig_new_keeps_i_set(chs, channel) ==
    LET state == channel_state(chs, channel)
    IN  [center |-> state.center,
         pid |-> state.pid.parameters,
         pid_target |-> as_f32(state.pid.target),
         pid_engaged |-> state.pid_engaged,
         i_set |-> state.i_set,
         polarity |-> state.polarity,
         bp |-> state.bp,
         output_limits |-> state.output_limits,
         adc_postfilter |-> IF chs.postfilter[channel] = "None" THEN "Invalid"
                            ELSE chs.postfilter[channel]]

\* ChannelConfig::new
ChannelConfig_new(chs, channel) ==
    LET state == channel_state(chs, channel)
    IN  [center |-> state.center,
         pid |-> state.pid.parameters,
         pid_target |-> as_f32(state.pid.target),
         pid_engaged |-> state.pid_engaged,
         i_set |-> IF state.pid_engaged THEN 0 ELSE state.i_set,
         polarity |-> state.polarity,
         bp |-> state.bp,
         output_limits |-> state.output_limits,
         adc_postfilter |-> IF chs.postfilter[channel] = "None" THEN "Invalid"
                            ELSE chs.postfilter[channel]]

\* OutputLimits::apply
OutputLimits_apply(limits, chs, channel) ==
    LET chs1 == set_max_v(chs, channel, limits.max_v).chs
        chs2 == set_max_i_pos(chs1, channel, limits.max_i_pos).chs
    IN  set_max_i_neg(chs2, channel, limits.max_i_neg).chs

\* Channels::set_postfilter
set_postfilter(chs, channel, filter) == [chs EXCEPT !.postfilter[channel] = filter]

\* ChannelConfig::apply: the new Channels and what its set_i call returned
ChannelConfig_apply(config, chs, channel) ==
    LET st1 == [channel_state(chs, channel) EXCEPT
                   !.center = config.center,
                   !.pid.parameters = config.pid,
                   !.pid.target = config.pid_target,
                   !.pid_engaged = config.pid_engaged,
                   !.bp = config.bp]
        chs1 == OutputLimits_apply(config.output_limits, with_state(chs, channel, st1), channel)
        adc_postfilter == IF config.adc_postfilter = "Invalid" THEN "None"
                          ELSE config.adc_postfilter
        chs2 == set_postfilter(chs1, channel, adc_postfilter)
        s == set_i(chs2, channel, config.i_set)
    IN  [chs |-> set_polarity(s.chs, channel, config.polarity), ret |-> s.ret]

----------------------------------------------------------------------------
(* command_handler.rs *)

\* Handler::engage_pid
Handler_engage_pid(chs, channel) ==
    [chs EXCEPT !.channel[channel].state.pid_engaged = TRUE]

\* Handler::set_pwm with pin ISet: the new Channels and what set_i returned
Handler_set_i(chs, channel, value) ==
    LET chs1 == [chs EXCEPT !.channel[channel].state.pid_engaged = FALSE]
        s == set_i(chs1, channel, value)
    IN  [chs |-> power_up(s.chs, channel), ret |-> s.ret]

\* Handler::set_center_point that calibrates again for the new center point
Handler_set_center_point_recalibrates(chs, channel, center) ==
    LET i_set == channel_state(chs, channel).i_set
        chs1 == [chs EXCEPT !.channel[channel].state.center = center]
        chs2 == calibrate_dac_value(chs1, channel, 1861, [num |-> VSub, den |-> 1, offset |-> 0])
    IN  IF ~channel_state(chs2, channel).pid_engaged
        THEN LET s == set_i(chs2, channel, i_set) IN [chs |-> s.chs, ret |-> Some(s.ret)]
        ELSE [chs |-> chs2, ret |-> NoneV]

\* Handler::set_center_point
Handler_set_center_point(chs, channel, center) ==
    LET i_set == channel_state(chs, channel).i_set
        chs1 == [chs EXCEPT !.channel[channel].state.center = center]
    IN  IF ~channel_state(chs1, channel).pid_engaged
        THEN LET s == set_i(chs1, channel, i_set) IN [chs |-> s.chs, ret |-> Some(s.ret)]
        ELSE [chs |-> chs1, ret |-> NoneV]

PidParameters == {"Target", "KP", "KI", "KD", "OutputMin", "OutputMax"}

\* Handler::set_pid
Handler_set_pid(chs, channel, parameter, value) ==
    LET pid == channel_state(chs, channel).pid
        pid1 == CASE parameter = "Target" -> [pid EXCEPT !.target = value]
                  [] parameter = "KP" -> [pid EXCEPT !.parameters.kp = value]
                  [] parameter = "KI" -> [pid EXCEPT !.parameters.ki = value]
                  [] parameter = "KD" -> [pid EXCEPT !.parameters.kd = value]
                  [] parameter = "OutputMin" -> [pid EXCEPT !.parameters.output_min = value]
                  [] parameter = "OutputMax" -> [pid EXCEPT !.parameters.output_max = value]
    IN  [chs EXCEPT !.channel[channel].state.pid = pid1]

\* Handler::reset_post_filter
Handler_reset_post_filter(chs, channel) ==
    [chs |-> set_postfilter(chs, channel, "None"), ret |-> "Handled"]

\* Handler::set_post_filter: the preset closest to the rate is written to the
\* ADC; Error::PostFilterRate when closest finds none
Handler_set_post_filter(chs, channel, rate) ==
    LET filter == closest(rate)
    IN  IF filter.some
        THEN [chs |-> set_postfilter(chs, channel, filter.v), ret |-> "Handled"]
        ELSE [chs |-> chs, ret |-> "PostFilterRate"]

----------------------------------------------------------------------------
(* command_parser.rs.  A command line is the sequence of its words, the    *)
(* words being separated by one or more spaces; tag(t) matches the word t. *)

\* a parsed Command; the fields a variant does not have are left at 0 or ""
Cmd(type, ch, pin, value, polarity) ==
    [type |-> type, channel |-> ch, pin |-> pin, value |-> value, polarity |-> polarity]

\* Result<Command, Error>
ParseOk(cmd) == [ok |-> TRUE, cmd |-> cmd, err |-> ""]
ParseErr(err) == [ok |-> FALSE, cmd |-> Cmd("", 0, "", 0, ""), err |-> err]

\* channel taking the digit 2 as well
parser_channel_takes_2(word) ==
    IF word = "0" THEN Some(0) ELSE IF word = "1" THEN Some(1)
    ELSE IF word = "2" THEN Some(2) ELSE NoneV

\* channel: one of the digits 0 and 1
parser_channel(word) ==
    IF word = "0" THEN Some(0) ELSE IF word = "1" THEN Some(1) ELSE NoneV

\* float, for the decimal literals of the command lines of the model
float(word) ==
    CASE word = "1" -> Some(1)
      [] word = "2" -> Some(2)
      [] word = "3" -> Some(3)
      [] OTHER -> NoneV

\* output_pid
output_pid(words) == words = <<"pid">>

\* output_polarity: Option<Polarity>, the polarity in v
output_polarity(words) ==
    IF Len(words) = 2 /\ words[1] = "polarity" /\ words[2] = "normal"
    THEN [some |-> TRUE, v |-> "Normal"]
    ELSE IF Len(words) = 2 /\ words[1] = "polarity" /\ words[2] = "reversed"
    THEN [some |-> TRUE, v |-> "Reversed"]
    ELSE [some |-> FALSE, v |-> ""]

\* pwm_setup: Option<(PwmPin, f64)>
pwm_setup(words) ==
    LET pin == CASE words[1] = "i_set" -> "ISet"
                 [] words[1] = "max_i_pos" -> "MaxIPos"
                 [] words[1] = "max_i_neg" -> "MaxINeg"
                 [] words[1] = "max_v" -> "MaxV"
                 [] OTHER -> ""
    IN  IF Len(words) = 2 /\ pin # "" /\ float(words[2]).some
        THEN [some |-> TRUE, pin |-> pin, value |-> float(words[2]).v]
        ELSE [some |-> FALSE, pin |-> "", value |-> 0]

\* output, the words after the tag "output": without any the command shows
\* the outputs; otherwise a channel and one of pid, polarity and a pin with
\* its value.  When that alternative fails, the second one matches the tag
\* alone and Command::parse finds the rest of the line unexpected
output(words) ==
    LET rest == SubSeq(words, 2, Len(words))
    IN  IF Len(words) = 0 THEN ParseOk(Cmd("ShowOutput", 0, "", 0, ""))
        ELSE IF ~parser_channel(words[1]).some \/ Len(rest) = 0 THEN ParseErr("UnexpectedInput")
        ELSE IF output_pid(rest)
        THEN ParseOk(Cmd("OutputPid", parser_channel(words[1]).v, "", 0, ""))
        ELSE IF output_polarity(rest).some
        THEN ParseOk(Cmd("OutputPolarity", parser_channel(words[1]).v, "", 0,
                         output_polarity(rest).v))
        ELSE IF pwm_setup(rest).some
        THEN ParseOk(Cmd("Output", parser_channel(words[1]).v, pwm_setup(rest).pin,
                         pwm_setup(rest).value, ""))
        ELSE ParseErr("UnexpectedInput")

\* a parsed Command::Load or Command::Save: its channel is an Option<usize>
CmdOfChannels(type, channel) ==
    [type |-> type, channel |-> channel, pin |-> "", value |-> 0, polarity |-> ""]

\* load and save, the words after the tag: a channel and nothing else, or
\* nothing.  When the first alternative fails the second one matches the tag
\* alone and Command::parse finds the rest of the line unexpected
load_or_save(type, words) ==
    IF Len(words) = 0 THEN ParseOk(CmdOfChannels(type, NoneV))
    ELSE IF Len(words) = 1 /\ parser_channel(words[1]).some
    THEN ParseOk(CmdOfChannels(type, Some(parser_channel(words[1]).v)))
    ELSE ParseErr("UnexpectedInput")

\* load
load(words) == load_or_save("Load", words)

\* save
save(words) == load_or_save("Save", words)

\* center_point, the words after the tag "center": a channel and "vref" or
\* a voltage; there is no alternative to fall back to
center_point(words) ==
    IF Len(words) < 2 \/ ~parser_channel(words[1]).some THEN ParseErr("Parser")
    ELSE IF words[2] # "vref" /\ ~float(words[2]).some THEN ParseErr("Parser")
    ELSE IF Len(words) > 2 THEN ParseErr("UnexpectedInput")
    ELSE IF words[2] = "vref"
    THEN ParseOk(Cmd("CenterPoint", parser_channel(words[1]).v, "VRef", 0, ""))
    ELSE ParseOk(Cmd("CenterPoint", parser_channel(words[1]).v, "Override",
                     float(words[2]).v, ""))

\* the parameter tags of pid_parameter and steinhart_hart_parameter
PidParameterTags ==
    [target |-> "Target", kp |-> "KP", ki |-> "KI", kd |-> "KD",
     output_min |-> "OutputMin", output_max |-> "OutputMax"]
ShParameterTags == [t0 |-> "T0", b |-> "B", r0 |-> "R0"]

\* pid_parameter and steinhart_hart_parameter: a channel, a parameter and a
\* value
parameter_of(type, tags, words) ==
    IF /\ Len(words) >= 3
       /\ parser_channel(words[1]).some
       /\ words[2] \in DOMAIN tags
       /\ float(words[3]).some
    THEN Some(Cmd(type, parser_channel(words[1]).v, tags[words[2]], float(words[3]).v, ""))
    ELSE NoneV

\* pid and steinhart_hart, the words after the tag: a parameter setting, or
\* nothing for the command that shows the parameters.  When the setting does
\* not parse, the second alternative matches the tag alone and Command::parse
\* finds the rest of the line unexpected
show_or_set(show, type, tags, words) ==
    IF Len(words) = 0 THEN ParseOk(Cmd(show, 0, "", 0, ""))
    ELSE IF parameter_of(type, tags, words).some /\ Len(words) = 3
    THEN ParseOk(parameter_of(type, tags, words).v)
    ELSE ParseErr("UnexpectedInput")

\* pid
parser_pid(words) == show_or_set("ShowPid", "Pid", PidParameterTags, words)

\* steinhart_hart
steinhart_hart(words) ==
    show_or_set("ShowSteinhartHart", "SteinhartHart", ShParameterTags, words)

\* postfilter, the words after the tag: a channel and "off" or "rate" with a
\* value, or nothing for the command that shows the postfilters
postfilter(words) ==
    IF Len(words) = 0 THEN ParseOk(Cmd("ShowPostFilter", 0, "", 0, ""))
    ELSE IF Len(words) = 2 /\ parser_channel(words[1]).some /\ words[2] = "off"
    THEN ParseOk(Cmd("PostFilter", parser_channel(words[1]).v, "off", 0, ""))
    ELSE IF /\ Len(words) = 3 /\ parser_channel(words[1]).some
            /\ words[2] = "rate" /\ float(words[3]).some
    THEN ParseOk(Cmd("PostFilter", parser_channel(words[1]).v, "rate", float(words[3]).v, ""))
    ELSE ParseErr("UnexpectedInput")

\* the tags of the commands whose arguments the model does not follow: none
\* of them takes a channel
OtherTags == {"ipv4", "fan", "fcurve", "hwrev"}

\* command and Command::parse: the alternatives are tried on the first word;
\* a line none of them matches is a parser error, words left over after a
\* command without arguments are unexpected input
Command_parse(words) ==
    LET rest == SubSeq(words, 2, Len(words))
        alone(type) == IF Len(rest) = 0 THEN ParseOk(Cmd(type, 0, "", 0, ""))
                       ELSE ParseErr("UnexpectedInput")
    IN  IF Len(words) = 0 THEN ParseErr("Parser")
        ELSE CASE words[1] = "quit" -> alone("Quit")
               [] words[1] = "reset" -> alone("Reset")
               [] words[1] = "dfu" -> alone("Dfu")
               [] words[1] = "report" -> alone("ShowInput")
               [] words[1] = "load" -> load(rest)
               [] words[1] = "save" -> save(rest)
               [] words[1] = "output" -> output(rest)
               [] words[1] = "center" -> center_point(rest)
               [] words[1] = "pid" -> parser_pid(rest)
               [] words[1] = "s-h" -> steinhart_hart(rest)
               [] words[1] = "postfilter" -> postfilter(rest)
               [] words[1] \in OtherTags -> ParseOk(Cmd("Other", 0, "", 0, ""))
               [] OTHER -> ParseErr("Parser")

\* Handler::reset and Handler::dfu: both channels are powered down
Handler_reset(chs) == power_down(power_down(chs, 0), 1)

\* Handler::set_pwm: the value is in A or V; the setters take setpoint
\* units, mA and mV
Handler_set_pwm(chs, ch, pin, value) ==
    CASE pin = "ISet" -> Handler_set_i(chs, ch, value * (MAX_TEC_I \div 2)).chs
      [] pin = "MaxV" -> set_max_v(chs, ch, value * 1000).chs
      [] pin = "MaxIPos" -> set_max_i_pos(chs, ch, value * 1000).chs
      [] pin = "MaxINeg" -> set_max_i_neg(chs, ch, value * 1000).chs

\* Handler::set_steinhart_hart: t0 in degree Celsius, b in K, r0 in ohm
\* (the parameters of the thermistor are the field bp of ChannelState)
Handler_set_steinhart_hart(chs, channel, parameter, value) ==
    CASE parameter = "T0" -> [chs EXCEPT !.channel[channel].state.bp.t0 = 10 * value]
      [] parameter = "B" -> [chs EXCEPT !.channel[channel].state.bp.b = value]
      [] parameter = "R0" -> [chs EXCEPT !.channel[channel].state.bp.r0 = value]

\* the value of a pid command in the units of the controller: the target in
\* tenths of a degree, the gains in setpoint current per tenth of a degree,
\* the bounds in setpoint current
pid_value(parameter, value) ==
    CASE parameter = "Target" -> 10 * value
      [] parameter \in {"KP", "KI", "KD"} -> value * (MAX_TEC_I \div 20)
      [] parameter \in {"OutputMin", "OutputMax"} -> value * (MAX_TEC_I \div 2)

\* the center point of a center command, an override in voltage units
center_of(cmd) ==
    IF cmd.pin = "VRef" THEN CenterVRef
    ELSE CenterOverride(cmd.value * (DAC_OUT_V_MAX \div 3))

\* the commands whose handler starts with the state of the command's channel
OfOneChannel ==
    {"OutputPid", "OutputPolarity", "Output", "CenterPoint", "Pid", "SteinhartHart",
     "PostFilter"}

\* Handler::handle_command: the new Channels and the Handler value returned.
\* A handler of a command for one channel reaches unreachable!() in
\* Channels::channel_state when the channel is neither 0 nor 1.  The flash
\* store is not followed: load_channel finds no configuration in it and
\* leaves the channel, save_channel writes to it only; both go through the
\* channels and compare them with the command's
handle_command(cmd, chs) ==
    CASE cmd.type \in OfOneChannel /\ cmd.channel \notin Channel ->
            [chs |-> chs, ret |-> "Panic"]
      [] cmd.type = "Quit" -> [chs |-> chs, ret |-> "CloseSocket"]
      [] cmd.type \in {"Reset", "Dfu"} -> [chs |-> Handler_reset(chs), ret |-> "Reset"]
      [] cmd.type = "OutputPid" /\ cmd.channel \in Channel ->
            [chs |-> Handler_engage_pid(chs, cmd.channel), ret |-> "Handled"]
      [] cmd.type = "OutputPolarity" /\ cmd.channel \in Channel ->
            [chs |-> set_polarity(chs, cmd.channel, cmd.polarity), ret |-> "Handled"]
      [] cmd.type = "Output" /\ cmd.channel \in Channel ->
            [chs |-> Handler_set_pwm(chs, cmd.channel, cmd.pin, cmd.value),
             ret |-> "Handled"]
      [] cmd.type = "CenterPoint" /\ cmd.channel \in Channel ->
            [chs |-> Handler_set_center_point(chs, cmd.channel, center_of(cmd)).chs,
             ret |-> "Handled"]
      [] cmd.type = "Pid" /\ cmd.channel \in Channel ->
            [chs |-> Handler_set_pid(chs, cmd.channel, cmd.pin, pid_value(cmd.pin, cmd.value)),
             ret |-> "Handled"]
      [] cmd.type = "SteinhartHart" /\ cmd.channel \in Channel ->
            [chs |-> Handler_set_steinhart_hart(chs, cmd.channel, cmd.pin, cmd.value),
             ret |-> "Handled"]
      [] cmd.type = "PostFilter" /\ cmd.channel \in Channel ->
            IF cmd.pin = "off"
            THEN Handler_reset_post_filter(chs, cmd.channel)
            ELSE Handler_set_post_filter(chs, cmd.channel, 1000 * cmd.value)
      [] OTHER -> [chs |-> chs, ret |-> "Handled"]

----------------------------------------------------------------------------
(* timer.rs *)

\* TIMER_DELTA = 1000 / TIMER_RATE
TIMER_DELTA == 2

\* the processor at reset as far as timer.rs is concerned: interrupts enabled,
\* TIMER_MS not borrowed, no SysTick pending, the thread outside now() and
\* sleep().  fired counts the expiries of the SysTick timer, real is the time
\* since reset in 1/RealSub ms, called_at the time of the last call of sleep,
\* ret and prev the last two results of now()
Cpu_reset ==
    [primask |-> FALSE, borrow |-> 0, pending |-> FALSE,
     pc |-> "main", caller |-> "none",
     read |-> 0, start |-> 0, amount |-> 0,
     fired |-> 0, real |-> 0, called_at |-> 0,
     ret |-> 0, prev |-> 0]

\* a critical section that leaves the interrupts enabled
interrupt_free_enter_unmasked(c) == c

\* cortex_m::interrupt::free as now() enters it: interrupts are masked
interrupt_free_enter(c) == [c EXCEPT !.primask = TRUE]

\* cortex_m::interrupt::free as now() leaves it: interrupts are enabled again
interrupt_free_exit(c) == [c EXCEPT !.primask = FALSE]

\* the SysTick handler: borrow_mut() of the RefCell panics while a Ref is
\* alive, otherwise TIMER_MS += TIMER_DELTA
SysTick_handler(c, ms) ==
    IF c.borrow # 0 THEN [ms |-> ms, panic |-> TRUE]
    ELSE [ms |-> ms + TIMER_DELTA, panic |-> FALSE]

\* now(), step by step inside the critical section: borrow(), the copy of
\* the counter, the drop of the Ref
now_borrow(c) == [c EXCEPT !.borrow = @ + 1, !.pc = "now_borrowed"]
now_deref(c, ms) == [c EXCEPT !.read = ms, !.pc = "now_read"]
now_drop(c) == [c EXCEPT !.borrow = @ - 1, !.pc = "now_dropped"]

\* sleep(amount): the loop condition now() - start <= amount
sleep_continues(now_ms, start, amount) == now_ms - start <= amount

----------------------------------------------------------------------------
(* The TCP server as the main loop sees it *)

Socket == 0 .. (SocketsFollowed - 1)

\* the lengths of a report line and of the "invalid input" line, scaled to
\* TxCapacity
ReportLen == 3
ErrorLen == 4

\* a TcpSocket of smoltcp: its TCP state, the line waiting in its receive
\* buffer (<<>> when there is none) and the bytes queued in its send buffer.
\* "Closing" stands for the states after close() in which the socket is
\* active but can neither send nor receive
TcpSocket_new == [state |-> "Closed", rx |-> <<>>, tx |-> 0]

is_active(socket) == socket.state \in {"Established", "CloseWait", "Closing"}
may_send(socket) == socket.state \in {"Established", "CloseWait"}
may_recv(socket) == socket.state = "Established"
can_send(socket) == may_send(socket) /\ socket.tx < TxCapacity
can_recv(socket) == may_recv(socket) /\ socket.rx # <<>>
send_capacity(socket) == TxCapacity
send_queue(socket) == socket.tx

\* TcpSocket::listen: refused unless the socket is closed
listen(socket) ==
    IF socket.state = "Closed" THEN [socket EXCEPT !.state = "Listen"] ELSE socket

\* TcpSocket::close
close(socket) ==
    [socket EXCEPT !.state = CASE socket.state = "Listen" -> "Closed"
                               [] socket.state \in {"Established", "CloseWait"} -> "Closing"
                               [] OTHER -> socket.state]

\* TcpSocket::abort: the socket is closed at once, a RST goes out at the
\* next poll
abort(socket) == [state |-> "Closed", rx |-> <<>>, tx |-> 0]

\* TcpSocket::send_slice: as many bytes as fit are queued and counted; Err
\* when the socket cannot send
send_slice(socket, len) ==
    IF ~may_send(socket) THEN [socket |-> socket, ok |-> FALSE, sent |-> 0]
    ELSE LET n == Min(len, TxCapacity - socket.tx)
         IN  [socket |-> [socket EXCEPT !.tx = @ + n], ok |-> TRUE, sent |-> n]

\* send_line (main.rs and command_handler.rs): the socket after the call,
\* the value returned, and the bytes of the line and of the newline that
\* were queued
send_line(socket, len) ==
    LET send_free == send_capacity(socket) - send_queue(socket)
        s1 == send_slice(socket, len)
        s2 == send_slice(s1.socket, 1)
    IN  IF len > send_free + 1
        THEN [socket |-> socket, ret |-> FALSE, data |-> 0, newline |-> 0]
        ELSE IF s1.ok /\ s1.sent = len
        THEN [socket |-> s2.socket, ret |-> TRUE, data |-> len, newline |-> s2.sent]
        ELSE [socket |-> s1.socket, ret |-> FALSE, data |-> s1.sent, newline |-> 0]

\* the length of the line a handler sends for a command: "{}" for a command
\* that was handled, a longer line for a report, nothing for quit, reset
\* and dfu (lengths scaled to TxCapacity)
reply_len(cmd) ==
    CASE cmd.type \in {"Quit", "Reset", "Dfu"} -> 0
      [] cmd.type \in {"ShowInput", "ShowOutput", "ShowPid", "ShowSteinhartHart",
                       "ShowPostFilter"} -> ReportLen
      [] OTHER -> 2

\* the length of the line sent for a parse result: the reply of the handler
\* or the "invalid input" line
LineLen(parsed) == IF parsed.ok THEN reply_len(parsed.cmd) ELSE ErrorLen

\* the callback of server.for_each while should_reset is false: listen on
\* an inactive socket, close a half-closed one, otherwise receive a line,
\* parse it, handle the command and send the reply
serve(socket, chs, should_reset) ==
    LET parsed == Command_parse(socket.rx)
        taken == [socket EXCEPT !.rx = <<>>]
        handled == handle_command(parsed.cmd, chs)
        reply == IF LineLen(parsed) = 0
                 THEN [socket |-> taken, ret |-> TRUE, data |-> 0, newline |-> 0]
                 ELSE send_line(taken, LineLen(parsed))
        idle == [ok |-> FALSE, cmd |-> Cmd("", 0, "", 0, ""), err |-> ""]
        none == [socket |-> socket, ret |-> FALSE, data |-> 0, newline |-> 0]
    IN  IF ~is_active(socket)
        THEN [socket |-> listen(socket), chs |-> chs, should_reset |-> should_reset,
              did |-> "listen", parsed |-> idle, reply |-> none]
        ELSE IF may_send(socket) /\ ~may_recv(socket)
        THEN [socket |-> close(socket), chs |-> chs, should_reset |-> should_reset,
              did |-> "close", parsed |-> idle, reply |-> none]
        ELSE IF can_send(socket) /\ can_recv(socket)
        THEN IF ~parsed.ok
             THEN [socket |-> reply.socket, chs |-> chs, should_reset |-> should_reset,
                   did |-> "error", parsed |-> parsed, reply |-> reply]
             ELSE [socket |-> IF handled.ret = "CloseSocket" THEN close(reply.socket)
                              ELSE reply.socket,
                   chs |-> handled.chs,
                   should_reset |-> should_reset \/ handled.ret = "Reset",
                   did |-> "command", parsed |-> parsed, reply |-> reply]
        ELSE [socket |-> socket, chs |-> chs, should_reset |-> should_reset,
              did |-> "nothing", parsed |-> idle, reply |-> none]

\* the server and the main loop before the first iteration: all sockets
\* closed, should_reset false.  phase is the position in the iteration
\* ("poll": before server.poll, "serve": in for_each at socket `next`),
\* resetting is should_reset as the iteration tested it, reset is TRUE once
\* SCB::sys_reset was called
Net_boot ==
    [should_reset |-> FALSE,
     sockets |-> [s \in Socket |-> TcpSocket_new],
     phase |-> "poll", next |-> 0, resetting |-> FALSE,
     any_socket_alive |-> FALSE, reset |-> FALSE]

----------------------------------------------------------------------------
(* session.rs.  A byte is the string of its character; a line is a         *)
(* sequence of bytes.                                                      *)

\* the bytes 13 and 10, and the byte 0 the buffer is filled with
CR == "\r"
LF == "\n"
NUL == ""

\* the word that starts at byte i of a line: the bytes up to the next space
RECURSIVE word_from(_, _)
word_from(line, i) ==
    IF i > Len(line) \/ line[i] = " " THEN ""
    ELSE line[i] \o word_from(line, i + 1)

\* the words of a line of bytes for Command::parse: the bytes between the
\* spaces, from byte i on
RECURSIVE words_from(_, _)
words_from(line, i) ==
    LET word == word_from(line, i)
    IN  IF i + Len(word) > Len(line) THEN <<word>>
        ELSE <<word>> \o words_from(line, i + Len(word) + 1)

line_words(line) == words_from(line, 1)

\* LineReader::new; buf[i] of the source is element i + 1 of the sequence buf
LineReader_new == [buf |-> [i \in 1 .. MAX_LINE_LEN |-> NUL], pos |-> 0]

\* Option<&[u8]>
NoLine == [some |-> FALSE, v |-> <<>>]

\* &self.buf[..len]
slice(buf, len) == SubSeq(buf, 1, len)

\* LineReader::feed with the test self.pos <= self.buf.len()
LineReader_feed_one_past(reader, c) ==
    IF c = CR \/ c = LF
    THEN IF reader.pos > 0
         THEN IF reader.pos <= MAX_LINE_LEN
              THEN [reader |-> [buf |-> reader.buf, pos |-> 0],
                    line |-> [some |-> TRUE, v |-> slice(reader.buf, reader.pos)],
                    panic |-> FALSE]
              ELSE [reader |-> reader, line |-> NoLine, panic |-> TRUE]
         ELSE [reader |-> reader, line |-> NoLine, panic |-> FALSE]
    ELSE IF reader.pos <= MAX_LINE_LEN
    THEN IF reader.pos + 1 \in DOMAIN reader.buf
         THEN [reader |-> [buf |-> [reader.buf EXCEPT ![reader.pos + 1] = c],
                            pos |-> reader.pos + 1],
               line |-> NoLine, panic |-> FALSE]
         ELSE [reader |-> reader, line |-> NoLine, panic |-> TRUE]
    ELSE [reader |-> reader, line |-> NoLine, panic |-> FALSE]

\* LineReader::feed: the reader after the byte c, the line delivered if c
\* ends a non-empty one; panic is the bounds check of the index and of the
\* slice
LineReader_feed(reader, c) ==
    IF c = CR \/ c = LF
    THEN IF reader.pos > 0
         THEN IF reader.pos <= MAX_LINE_LEN
              THEN [reader |-> [buf |-> reader.buf, pos |-> 0],
                    line |-> [some |-> TRUE, v |-> slice(reader.buf, reader.pos)],
                    panic |-> FALSE]
              ELSE [reader |-> reader, line |-> NoLine, panic |-> TRUE]
         ELSE [reader |-> reader, line |-> NoLine, panic |-> FALSE]
    ELSE IF reader.pos < MAX_LINE_LEN
    THEN IF reader.pos + 1 \in DOMAIN reader.buf
         THEN [reader |-> [buf |-> [reader.buf EXCEPT ![reader.pos + 1] = c],
                            pos |-> reader.pos + 1],
               line |-> NoLine, panic |-> FALSE]
         ELSE [reader |-> reader, line |-> NoLine, panic |-> TRUE]
    ELSE [reader |-> reader, line |-> NoLine, panic |-> FALSE]

\* SessionInput: Nothing, or the conversion of the result of Command::parse
SessionInput_Nothing ==
    [type |-> "Nothing", parsed |-> [ok |-> FALSE, cmd |-> Cmd("", 0, "", 0, ""), err |-> ""]]

SessionInput_from(input) ==
    [type |-> IF input.ok THEN "Command" ELSE "Error", parsed |-> input]

\* Session::new and Session::reset
Session_new == [reader |-> LineReader_new]

Session_reset(session) == [reader |-> LineReader_new]

\* Session::feed that starts each call with an empty line
RECURSIVE Session_feed_from(_, _, _)
Session_feed_forgets(session, buf) == Session_feed_from(Session_new, buf, 0)

\* the loop of Session::feed from byte i of buf on: the session after the
\* call, buf_bytes, the input returned and the line that was parsed for it
Session_feed_from(session, buf, i) ==
    IF i = Len(buf)
    THEN [session |-> session, buf_bytes |-> i, input |-> SessionInput_Nothing,
          line |-> NoLine, panic |-> FALSE]
    ELSE LET r == LineReader_feed(session.reader, buf[i + 1])
         IN  IF r.panic
             THEN [session |-> session, buf_bytes |-> i + 1,
                   input |-> SessionInput_Nothing, line |-> NoLine, panic |-> TRUE]
             ELSE IF r.line.some
             THEN [session |-> [reader |-> r.reader],
                   buf_bytes |-> i + 1,
                   input |-> SessionInput_from(Command_parse(line_words(r.line.v))),
                   line |-> r.line, panic |-> FALSE]
             ELSE Session_feed_from([reader |-> r.reader], buf, i + 1)

\* Session::feed
Session_feed(session, buf) == Session_feed_from(session, buf, 0)

\* a call of Session::feed as the model records it: the bytes passed, the
\* position of the reader before the call and what the call returned
NoCall ==
    [buf |-> <<>>, pos |-> 0, buf_bytes |-> 0, input |-> SessionInput_Nothing,
     line |-> NoLine]

\* a session nobody feeds, on a closed socket; conn counts the connections
\* the socket accepted, dropped is the unterminated line the last
\* session.reset() threw away
Sess_idle ==
    [session |-> Session_new, stream |-> <<>>, at |-> 0, out |-> <<>>,
     call |-> NoCall, socket |-> TcpSocket_new, conn |-> 0, dropped |-> <<>>]

\* the callback of server.for_each on an active socket while should_reset
\* is false, the receive buffer holding bytes: a half-closed socket is
\* closed; otherwise the session is fed with the bytes received, the bytes
\* it consumed are taken from the buffer, a command is handled and
\* answered, a parse error is answered with the "invalid input" line
serve_active(socket, session, chs, should_reset) ==
    LET r == Session_feed(session, socket.rx)
        taken == [socket EXCEPT !.rx = SubSeq(@, r.buf_bytes + 1, Len(@))]
        handled == handle_command(r.input.parsed.cmd, chs)
        len == LineLen(r.input.parsed)
        reply == IF len = 0 THEN taken ELSE send_line(taken, len).socket
        call == [buf |-> socket.rx, pos |-> session.reader.pos,
                 buf_bytes |-> r.buf_bytes, input |-> r.input, line |-> r.line]
    IN  IF may_send(socket) /\ ~may_recv(socket)
        THEN [socket |-> close(socket), session |-> session, chs |-> chs,
              should_reset |-> should_reset, call |-> NoCall, panic |-> FALSE]
        ELSE IF can_send(socket) /\ can_recv(socket)
        THEN CASE r.panic ->
                    [socket |-> socket, session |-> session, chs |-> chs,
                     should_reset |-> should_reset, call |-> call, panic |-> TRUE]
               [] ~r.panic /\ r.input.type = "Nothing" ->
                    [socket |-> taken, session |-> r.session, chs |-> chs,
                     should_reset |-> should_reset, call |-> call, panic |-> FALSE]
               [] ~r.panic /\ r.input.type = "Error" ->
                    [socket |-> reply, session |-> r.session, chs |-> chs,
                     should_reset |-> should_reset, call |-> call, panic |-> FALSE]
               [] ~r.panic /\ r.input.type = "Command" ->
                    [socket |-> IF handled.ret = "CloseSocket" THEN close(reply)
                                ELSE reply,
                     session |-> r.session, chs |-> handled.chs,
                     should_reset |-> should_reset \/ handled.ret = "Reset",
                     call |-> call, panic |-> FALSE]
        ELSE [socket |-> socket, session |-> session, chs |-> chs,
              should_reset |-> should_reset, call |-> NoCall, panic |-> FALSE]

\* the callback that listens on an inactive socket without session.reset()
serve_session_keeps_line(socket, session, chs, should_reset) ==
    IF ~is_active(socket)
    THEN [socket |-> listen(socket), session |-> session, chs |-> chs,
          should_reset |-> should_reset, call |-> NoCall, panic |-> FALSE]
    ELSE serve_active(socket, session, chs, should_reset)

\* the callback of server.for_each while should_reset is false: on an
\* inactive socket listen and session.reset(), otherwise as above
serve_session(socket, session, chs, should_reset) ==
    IF ~is_active(socket)
    THEN [socket |-> listen(socket), session |-> Session_reset(session), chs |-> chs,
          should_reset |-> should_reset, call |-> NoCall, panic |-> FALSE]
    ELSE serve_active(socket, session, chs, should_reset)

----------------------------------------------------------------------------
(* Inputs of the model *)

\* raw ADC codes: the "no thermistor" sentinel and two valid samples
RawCodes == {AD7172_MAX_VALUE, 8305408, 7340032}
SetpointRawCodes == {AD7172_MAX_VALUE, 8305408}

\* requested setpoint currents: 0 A, 1 A, 3 A and -3 A
OneAmp == MAX_TEC_I \div 2
ThreeAmps == MAX_TEC_I + OneAmp
ISetRequests == {0, OneAmp, ThreeAmps, -ThreeAmps}

\* DAC codes calibrate_dac_value can select for a 1.5 V reference (1 + k * 2^5)
VrefCodes == {131073}

\* PID gain: 2 A per degree
Gain == MAX_TEC_I \div 10
\* PID parameter commands
PidCommands ==
    {<<"KP", Gain>>, <<"OutputMin", 2 * ThreeAmps>>, <<"OutputMax", ThreeAmps>>}

\* PID parameter commands of the controller specification: target 25.0 degree,
\* derivative gain, bounds of 0 A, a lower bound of 6 A above the upper one
PidTuningCommands ==
    {<<"Target", 250>>, <<"KD", Gain>>, <<"OutputMin", 0>>, <<"OutputMax", 0>>,
     <<"OutputMin", 2 * ThreeAmps>>}

\* override voltage of the center point commands: 1.0 V
CenterCommands == {CenterVRef, CenterOverride(MAX_TEC_I)}

\* limit requests in mA, within the device maximum and beyond it
MaxIPosRequests == {1500}
MaxINegRequests == {2500}
\* current limit requests in mA and voltage limit requests in mV: negative,
\* within the device maximum and beyond it
LimitRequests == {-500, 1500, 2500}
MaxVRequests == {-1000, 3000, 5000}

\* averaged samples of the CPU ADC: TEC current sense above (2.0 V) and below
\* (1.0 V) the 1.5 V reference, TEC voltage sense likewise
AuxSamples ==
    {[itec |-> 2482, vref |-> 1861, vtec |-> 2482, dac_vfb |-> 1861],
     [itec |-> 1241, vref |-> 1861, vtec |-> 1241, dac_vfb |-> 1861]}

\* what the calibration meets at boot: the averaged sample of the 1.5 V
\* reference input and a strictly increasing transfer function from DAC code
\* to feedback voltage: the nominal one, one with a gain of 7/8 and an offset,
\* one that reaches the reference at code 1 and one that reaches it at the
\* highest code
CalibrationInputs ==
    LET reference == millivolt(adc_read(1861))
    IN  {[vref |-> 1861, tf |-> [num |-> VSub, den |-> 1, offset |-> 0]],
         [vref |-> 1861, tf |-> [num |-> 7 * VSub, den |-> 8, offset |-> 1000]],
         [vref |-> 1861, tf |-> [num |-> VSub, den |-> 1, offset |-> reference - VSub]],
         [vref |-> 1861, tf |-> [num |-> VSub, den |-> 1,
                                 offset |-> reference - AD5680_MAX_VALUE * VSub]]}

\* channel configurations the flash store can hold
FlashConfigs ==
    {[center |-> CenterOverride(MAX_TEC_I),
      pid |-> [kp |-> Gain, ki |-> 0, kd |-> 0,
               output_min |-> -MAX_TEC_I, output_max |-> MAX_TEC_I],
      pid_target |-> 250,
      pid_engaged |-> TRUE,
      i_set |-> 0,
      polarity |-> "Reversed",
      bp |-> bp_Parameters_default,
      output_limits |-> [max_v |-> 4000, max_i_pos |-> 1000, max_i_neg |-> 500],
      adc_postfilter |-> "F20SPS"],
     [center |-> CenterVRef,
      pid |-> Parameters_default,
      pid_target |-> 0,
      pid_engaged |-> FALSE,
      i_set |-> ThreeAmps,
      polarity |-> "Normal",
      bp |-> bp_Parameters_default,
      output_limits |-> OutputLimits_zero,
      adc_postfilter |-> "Invalid"]}

\* a stored configuration with proportional and integral gain, engaged, and
\* one with zero gains, not engaged
PidFlashConfigs ==
    {[center |-> CenterVRef,
      pid |-> [kp |-> Gain, ki |-> Gain, kd |-> 0,
               output_min |-> -MAX_TEC_I, output_max |-> OneAmp],
      pid_target |-> 305,
      pid_engaged |-> TRUE,
      i_set |-> 0,
      polarity |-> "Normal",
      bp |-> bp_Parameters_default,
      output_limits |-> OutputLimits_zero,
      adc_postfilter |-> "Invalid"],
     [center |-> CenterVRef,
      pid |-> Parameters_default,
      pid_target |-> 0,
      pid_engaged |-> FALSE,
      i_set |-> 0,
      polarity |-> "Normal",
      bp |-> bp_Parameters_default,
      output_limits |-> OutputLimits_zero,
      adc_postfilter |-> "Invalid"]}

\* postfilter rates asked for, in milli-SPS: 21 SPS; 22.5 SPS, as far from
\* 25 SPS as from 20 SPS; a preset itself; rates below and above all presets;
\* 18 SPS and 23 SPS; a negative rate
PostFilterRates == {21000, 22500, 27270, 0, 100000, 18000, 23000, -5000}

\* the millisecond counter is followed up to this value
MaxTimerMs == 2

\* real time is followed in steps of 1/RealSub ms
RealSub == 2

\* the SysTick timer is followed for this many expiries
MaxTicks == 7

\* the SysTick period (TIMER_DELTA ms) in steps of real time
TickPeriod == TIMER_DELTA * RealSub

\* the amounts sleep is called with: odd and even ones, and the 10 ms of
\* calibrate_dac_value
SleepAmounts == {1, 2, 3, 10}

\* the expiries of the timer after which sleep(amount) has returned
TicksToReturn(amount) == amount \div TIMER_DELTA + 1

\* the requests of the two-channel runs: one setpoint, one of each limit
FrameISetRequests == {OneAmp}
FrameMaxVRequests == {3000}
FrameFlashConfigs == {config \in FlashConfigs : config.pid_engaged}

\* the SPI transfers of a control tick that can return Err
IoFaults == {"data_ready", "read_data", "dac_set"}

\* command lines received from a client, as sequences of words
CommandLines ==
    {<<"pwm", "0", "polarity", "reversed">>,
     <<"pwm", "1", "polarity", "normal">>,
     <<"output", "0", "polarity", "reversed">>,
     <<"output", "0", "polarity", "normal">>,
     <<"output", "1", "polarity", "reversed">>,
     <<"output", "0", "pid">>,
     <<"output", "1", "i_set", "1">>,
     <<"output", "0", "i_set", "3">>,
     <<"output", "0", "max_v", "3">>,
     <<"output", "0", "max_i_pos", "1">>,
     <<"output", "1", "max_i_neg", "2">>,
     <<"output">>,
     <<"output", "2", "pid">>,
     <<"output", "0", "polarity", "inverted">>,
     <<"report">>,
     <<"quit">>,
     <<"pid">>,
     <<>>}

\* command lines for one channel or for all: each command that takes a
\* channel with channel 0 or 1 and with channel 2
ChannelLines ==
    {<<"output", "1", "pid">>,
     <<"output", "2", "pid">>,
     <<"output", "2", "i_set", "1">>,
     <<"pid", "1", "target", "3">>,
     <<"pid", "2", "target", "3">>,
     <<"pid", "1">>,
     <<"center", "1", "vref">>,
     <<"center", "0", "1">>,
     <<"center", "2", "vref">>,
     <<"s-h", "1", "b", "3">>,
     <<"s-h", "2", "b", "3">>,
     <<"postfilter", "0", "rate", "3">>,
     <<"postfilter", "0", "off">>,
     <<"postfilter", "2", "off">>,
     <<"load">>,
     <<"load", "1">>,
     <<"load", "2">>,
     <<"save", "0">>,
     <<"save", "2">>,
     <<"save", "0", "1">>}

\* the command lines clients send to the server
ServerLines ==
    {<<"reset">>, <<"output", "0", "pid">>, <<"report">>, <<"quit">>,
     <<"pwm", "0", "polarity", "reversed">>}

\* the second socket's client sends these
SecondSocketLines == {<<"dfu">>, <<"output", "0", "pid">>}

\* n bytes "x"
Xs(n) == [i \in 1 .. n |-> "x"]

\* the longest of the short byte streams
MaxShort == 3

\* byte streams a client sends: two commands ended by CR LF and by LF; empty
\* lines, a command and an unterminated one; a line of MAX_LINE_LEN bytes;
\* a line longer than MAX_LINE_LEN whose last bytes differ,
\* followed by a command; a command behind a line of MAX_LINE_LEN + 1
\* bytes; and every stream of up to MaxShort bytes of x, space, CR and LF
SessionStreams ==
    {<<"r", "e", "s", "e", "t", CR, LF,
       "o", "u", "t", "p", "u", "t", " ", "0", " ", "p", "i", "d", LF>>,
     <<LF, LF, "r", "e", "p", "o", "r", "t", LF, CR, "q", "u", "i", "t">>,
     Xs(MAX_LINE_LEN) \o <<CR>>,
     Xs(MAX_LINE_LEN - 1) \o <<"y", "z", "x", "w", LF, "d", "f", "u", LF>>,
     Xs(MAX_LINE_LEN + 1) \o <<LF, "q", "u", "i", "t", LF>>}
    \cup UNION {[1 .. n -> {"x", " ", CR, LF}] : n \in 1 .. MaxShort}

\* the byte that the lines of a connection are made of: a for the first
\* connection of a socket, b for the second, and so on in turn
ConnByte(conn) == IF conn % 2 = 1 THEN "a" ELSE "b"

\* the bytes a segment of a connection carries
ConnSegments(conn) ==
    UNION {[1 .. n -> {ConnByte(conn), LF}] : n \in 1 .. 2}

\* the command lines of the main loop specification: the PID of channel 0 is
\* engaged, then the firmware is asked to reset
MainLoopLines == {<<"reset">>, <<"output", "0", "pid">>}

\* the codes of its conversions: 30.5 degree and the sentinel
MainLoopRawCodes == {7340032, AD7172_MAX_VALUE}

\* targets of the configuration specification: 25.0 degree and a value between
\* two neighbouring f32
ConfigTargets == {250, 2^24 + 1}

----------------------------------------------------------------------------
(* The state after Channels::new *)

\* Channel::new and PwmPins::setup: shutdown pin low, PWM duties 0;
\* calibrate_dac_value leaves vref_meas at the voltage of the selected code
Channels_constructed(vref_code) ==
    [channel |-> [c \in Channel |->
                    [state |-> ChannelState_new,
                     vref_meas |-> dac_code_voltage(vref_code[c]),
                     dac |-> 0,
                     shdn |-> FALSE]],
     pwm |-> [c \in Channel |-> [pin \in PwmPins |-> 0]],
     postfilter |-> [c \in Channel |-> "None"],
     io |-> <<>>]

\* Channels::new: after the calibration, set_i(channel, 0 A) for each channel
Channels_new(vref_code) ==
    LET chs0 == set_i(Channels_constructed(vref_code), 0, 0).chs
        chs1 == set_i(chs0, 1, 0).chs
    IN  [chs1 EXCEPT !.io = <<>>]

\* Channels::new with the calibration: for each channel calibrate_dac_value,
\* then set_i(channel, 0 A); vref_meas before it is that of Channel::new
Channels_new_calibrated(env) ==
    LET chs == Channels_constructed(CHOOSE vref_code \in [Channel -> VrefCodes] : TRUE)
        cal0 == calibrate_dac_value(chs, 0, env[0].vref, env[0].tf)
        chs0 == set_i(cal0, 0, 0).chs
        cal1 == calibrate_dac_value(chs0, 1, env[1].vref, env[1].tf)
        chs1 == set_i(cal1, 1, 0).chs
    IN  [chs1 EXCEPT !.io = <<>>]

NoOp == [op |-> "boot", channel |-> -1, ret |-> NoneV]

\* boot with the calibration of both channels
InitCalibrated ==
    /\ \E env0 \in CalibrationInputs :
          channels = Channels_new_calibrated([c \in Channel |-> env0])
    /\ halted = FALSE
    /\ sampled = [c \in Channel |-> -1]
    /\ timer_ms = 0
    /\ last = NoOp
    /\ cpu = Cpu_reset
    /\ net = Net_boot
    /\ sess = Sess_idle
    /\ boot = Boot_done

Init ==
    /\ \E vref_code \in [Channel -> VrefCodes] : channels = Channels_new(vref_code)
    /\ halted = FALSE
    /\ sampled = [c \in Channel |-> -1]
    /\ timer_ms = 0
    /\ last = NoOp
    /\ cpu = Cpu_reset
    /\ net = Net_boot
    /\ sess = Sess_idle
    /\ boot = Boot_done

----------------------------------------------------------------------------
(* Steps *)

\* the handler starts with an empty device log
begin == [channels EXCEPT !.io = <<>>]

Done(op, channel, ret) == last' = [op |-> op, channel |-> channel, ret |-> ret]

\* SysTick exception
SysTick ==
    /\ ~halted
    /\ ~cpu.primask
    /\ timer_ms + TIMER_DELTA <= MaxTimerMs
    /\ LET r == SysTick_handler(cpu, timer_ms)
       IN  timer_ms' = r.ms /\ halted' = r.panic
    /\ UNCHANGED <<channels, sampled, last, cpu, net, boot, sess>>

\* main loop: poll_adc(now) finds a conversion of channel c with code data
PollAdc(c, data) ==
    /\ ~halted
    /\ LET r == poll_adc(begin, timer_ms, c, data)
       IN  /\ channels' = r.chs
           /\ halted' = r.panic
           /\ Done("poll_adc", c, r.set_i_ret)
    /\ sampled' = [sampled EXCEPT ![c] = data]
    /\ UNCHANGED <<timer_ms, cpu, net, boot, sess>>

\* main loop: poll_adc(now) when data_ready() gives None
PollAdcNone ==
    /\ ~halted
    /\ channels' = begin
    /\ Done("poll_adc", -1, NoneV)
    /\ UNCHANGED <<halted, sampled, timer_ms, cpu, net, boot, sess>>

\* Command::Output with pin ISet
CmdISet(c, value) ==
    /\ ~halted
    /\ LET r == Handler_set_i(begin, c, value)
       IN  channels' = r.chs /\ Done("i_set", c, Some(r.ret))
    /\ UNCHANGED <<halted, sampled, timer_ms, cpu, net, boot, sess>>

\* Command::Output with pin MaxV
CmdMaxV(c, value) ==
    /\ ~halted
    /\ channels' = set_max_v(begin, c, value).chs
    /\ Done("max_v", c, NoneV)
    /\ UNCHANGED <<halted, sampled, timer_ms, cpu, net, boot, sess>>

\* Command::Output with pin MaxIPos
CmdMaxIPos(c, value) ==
    /\ ~halted
    /\ channels' = set_max_i_pos(begin, c, value).chs
    /\ Done("max_i_pos", c, NoneV)
    /\ UNCHANGED <<halted, sampled, timer_ms, cpu, net, boot, sess>>

\* Command::Output with pin MaxINeg
CmdMaxINeg(c, value) ==
    /\ ~halted
    /\ channels' = set_max_i_neg(begin, c, value).chs
    /\ Done("max_i_neg", c, NoneV)
    /\ UNCHANGED <<halted, sampled, timer_ms, cpu, net, boot, sess>>

\* Command::OutputPid
CmdEngagePid(c) ==
    /\ ~halted
    /\ channels' = Handler_engage_pid(begin, c)
    /\ Done("engage_pid", c, NoneV)
    /\ UNCHANGED <<halted, sampled, timer_ms, cpu, net, boot, sess>>

\* Command::OutputPolarity
CmdPolarity(c, polarity) ==
    /\ ~halted
    /\ channels' = set_polarity(begin, c, polarity)
    /\ Done("polarity", c, NoneV)
    /\ UNCHANGED <<halted, sampled, timer_ms, cpu, net, boot, sess>>

\* Command::CenterPoint
CmdCenterPoint(c, center) ==
    /\ ~halted
    /\ LET r == Handler_set_center_point(begin, c, center)
       IN  channels' = r.chs /\ Done("center", c, r.ret)
    /\ UNCHANGED <<halted, sampled, timer_ms, cpu, net, boot, sess>>

\* Command::Pid
CmdPid(c, parameter, value) ==
    /\ ~halted
    /\ channels' = Handler_set_pid(begin, c, parameter, value)
    /\ Done("pid", c, NoneV)
    /\ UNCHANGED <<halted, sampled, timer_ms, cpu, net, boot, sess>>

\* Command::Show(ShowCommand::Input): the report of both channels
CmdReport(aux) ==
    /\ ~halted
    /\ LET r == reports_json(begin, aux)
       IN  channels' = r.chs /\ Done("report", -1, Some(r.ret[1].tec_i))
    /\ UNCHANGED <<halted, sampled, timer_ms, cpu, net, boot, sess>>

\* Command::Show(ShowCommand::Pid)
CmdShowPid ==
    /\ ~halted
    /\ channels' = pid_summaries_json(begin).chs
    /\ Done("show_pid", -1, NoneV)
    /\ UNCHANGED <<halted, sampled, timer_ms, cpu, net, boot, sess>>

\* Command::Show(ShowCommand::Output)
CmdShowOutput ==
    /\ ~halted
    /\ channels' = output_summaries_json(begin).chs
    /\ Done("show_output", -1, NoneV)
    /\ UNCHANGED <<halted, sampled, timer_ms, cpu, net, boot, sess>>

\* Command::Show(ShowCommand::PostFilter)
CmdShowPostFilter ==
    /\ ~halted
    /\ channels' = postfilter_summaries_json(begin).chs
    /\ Done("show_postfilter", -1, NoneV)
    /\ UNCHANGED <<halted, sampled, timer_ms, cpu, net, boot, sess>>

\* Command::Show of the temperature model: b_parameter_summaries_json
CmdShowBParameter ==
    /\ ~halted
    /\ channels' = b_parameter_summaries_json(begin).chs
    /\ Done("show_b_parameter", -1, NoneV)
    /\ UNCHANGED <<halted, sampled, timer_ms, cpu, net, boot, sess>>

\* main loop: fan_ctrl.cycle(channels.current_abs_max_tec_i())
FanCycle(aux) ==
    /\ ~halted
    /\ LET r == current_abs_max_tec_i(begin, aux)
       IN  channels' = r.chs /\ Done("current_abs_max_tec_i", -1, Some(r.ret))
    /\ UNCHANGED <<halted, sampled, timer_ms, cpu, net, boot, sess>>

\* main loop: the LED follows channels.pid_engaged()
LedUpdate ==
    /\ ~halted
    /\ LET r == pid_engaged(begin)
       IN  channels' = r.chs /\ Done("pid_engaged", -1, Some(IF r.ret THEN 1 ELSE 0))
    /\ UNCHANGED <<halted, sampled, timer_ms, cpu, net, boot, sess>>

\* Command::Load of one channel whose configuration the flash store holds
CmdLoad(c, config) ==
    /\ ~halted
    /\ LET r == ChannelConfig_apply(config, begin, c)
       IN  channels' = r.chs /\ Done("load", c, Some(r.ret))
    /\ UNCHANGED <<halted, sampled, timer_ms, cpu, net, boot, sess>>

\* Command::PostFilter with a rate
CmdPostFilter(c, rate) ==
    /\ ~halted
    /\ LET r == Handler_set_post_filter(begin, c, rate)
       IN  channels' = r.chs /\ Done("postfilter", c, Some(rate))
    /\ UNCHANGED <<halted, sampled, timer_ms, cpu, net, boot, sess>>

\* Command::PostFilter with "off"
CmdPostFilterOff(c) ==
    /\ ~halted
    /\ channels' = Handler_reset_post_filter(begin, c).chs
    /\ Done("postfilter_off", c, NoneV)
    /\ UNCHANGED <<halted, sampled, timer_ms, cpu, net, boot, sess>>

\* real time passes, up to the next expiry of the SysTick timer; an expiry
\* is taken or pending before time goes on
Elapse ==
    /\ ~halted
    /\ ~cpu.pending
    /\ cpu.fired < MaxTicks
    /\ cpu.real < (cpu.fired + 1) * TickPeriod
    /\ cpu' = [cpu EXCEPT !.real = @ + 1]
    /\ UNCHANGED <<channels, halted, sampled, timer_ms, last, net, boot, sess>>

\* the SysTick timer expires: its exception becomes pending
SysTickExpire ==
    /\ ~halted
    /\ ~cpu.pending
    /\ cpu.fired < MaxTicks
    /\ cpu.real = (cpu.fired + 1) * TickPeriod
    /\ cpu' = [cpu EXCEPT !.fired = @ + 1, !.pending = TRUE]
    /\ UNCHANGED <<channels, halted, sampled, timer_ms, last, net, boot, sess>>

\* the pending SysTick exception is taken as soon as interrupts are enabled
SysTickTaken ==
    /\ ~halted
    /\ cpu.pending
    /\ ~cpu.primask
    /\ LET r == SysTick_handler(cpu, timer_ms)
       IN  timer_ms' = r.ms /\ halted' = r.panic
    /\ cpu' = [cpu EXCEPT !.pending = FALSE]
    /\ UNCHANGED <<channels, sampled, last, net, boot, sess>>

\* the thread runs unless an exception preempts it
Runnable == ~halted /\ ~(cpu.pending /\ ~cpu.primask)

\* the thread calls now()
CallNow ==
    /\ Runnable
    /\ cpu.pc = "main"
    /\ cpu' = [interrupt_free_enter(cpu) EXCEPT !.pc = "now_cs", !.caller = "now"]
    /\ UNCHANGED <<channels, halted, sampled, timer_ms, last, net, boot, sess>>

\* the thread calls sleep(amount), which starts with start = now()
CallSleep(amount) ==
    /\ Runnable
    /\ cpu.pc = "main"
    /\ cpu.fired + TicksToReturn(amount) <= MaxTicks
    /\ cpu' = [interrupt_free_enter(cpu) EXCEPT !.pc = "now_cs", !.caller = "sleep_start",
                                                !.amount = amount, !.called_at = cpu.real]
    /\ UNCHANGED <<channels, halted, sampled, timer_ms, last, net, boot, sess>>

\* sleep evaluates its loop condition: the next now()
SleepPoll ==
    /\ Runnable
    /\ cpu.pc = "sleep_loop"
    /\ cpu' = [interrupt_free_enter(cpu) EXCEPT !.pc = "now_cs"]
    /\ UNCHANGED <<channels, halted, sampled, timer_ms, last, net, boot, sess>>

\* now(): TIMER_MS.borrow(cs).borrow()
NowBorrow ==
    /\ Runnable
    /\ cpu.pc = "now_cs"
    /\ cpu' = now_borrow(cpu)
    /\ UNCHANGED <<channels, halted, sampled, timer_ms, last, net, boot, sess>>

\* now(): the counter is copied out of the Ref
NowDeref ==
    /\ Runnable
    /\ cpu.pc = "now_borrowed"
    /\ cpu' = now_deref(cpu, timer_ms)
    /\ UNCHANGED <<channels, halted, sampled, timer_ms, last, net, boot, sess>>

\* now(): the Ref is dropped at the end of the closure
NowDrop ==
    /\ Runnable
    /\ cpu.pc = "now_read"
    /\ cpu' = now_drop(cpu)
    /\ UNCHANGED <<channels, halted, sampled, timer_ms, last, net, boot, sess>>

\* now() returns to its caller: the thread itself, the first line of sleep
\* or the loop condition of sleep
NowReturn ==
    /\ Runnable
    /\ cpu.pc = "now_dropped"
    /\ LET c == [interrupt_free_exit(cpu) EXCEPT !.prev = cpu.ret, !.ret = cpu.read]
       IN  CASE cpu.caller = "now" ->
                  /\ cpu' = [c EXCEPT !.pc = "main", !.caller = "none"]
                  /\ Done("now", -1, Some(cpu.read))
             [] cpu.caller = "sleep_start" ->
                  /\ cpu' = [c EXCEPT !.pc = "sleep_loop", !.caller = "sleep_loop",
                                      !.start = cpu.read]
                  /\ UNCHANGED last
             [] OTHER ->
                  IF sleep_continues(cpu.read, cpu.start, cpu.amount)
                  THEN cpu' = [c EXCEPT !.pc = "sleep_loop"] /\ UNCHANGED last
                  ELSE /\ cpu' = [c EXCEPT !.pc = "main", !.caller = "none"]
                       /\ Done("sleep", -1, Some(cpu.amount))
    /\ UNCHANGED <<channels, halted, sampled, timer_ms, net, boot, sess>>

\* main loop: poll_adc(now) during which the SPI transfer `fault` returns Err
PollAdcFault(c, data, fault) ==
    /\ ~halted
    /\ LET r == poll_adc_fault(begin, timer_ms, c, data, fault)
       IN  /\ channels' = r.chs
           /\ halted' = r.panic
           /\ Done("poll_adc_fault", c, Some(fault))
    /\ sampled' = IF fault = "dac_set" THEN [sampled EXCEPT ![c] = data] ELSE sampled
    /\ UNCHANGED <<timer_ms, cpu, net, boot, sess>>

\* main loop: a socket received a line; Command::parse and, for a command,
\* Handler::handle_command
RecvLine(words) ==
    /\ ~halted
    /\ LET parsed == Command_parse(words)
           handled == IF parsed.ok THEN handle_command(parsed.cmd, begin)
                      ELSE [chs |-> begin, ret |-> "Error"]
       IN  /\ channels' = handled.chs
           /\ Done("command", -1, Some([line |-> words, parsed |-> parsed,
                                        handled |-> handled.ret]))
    /\ UNCHANGED <<halted, sampled, timer_ms, cpu, net, boot, sess>>

\* server.poll brings in a client's connection to a listening socket
ClientConnect(s) ==
    /\ ~halted /\ ~net.reset
    /\ net.phase = "poll"
    /\ net.sockets[s].state = "Listen"
    /\ net' = [net EXCEPT !.sockets[s].state = "Established"]
    /\ UNCHANGED <<channels, halted, sampled, timer_ms, last, cpu, boot, sess>>

\* server.poll brings in a line from a connected client
ClientLine(s, words) ==
    /\ ~halted /\ ~net.reset
    /\ net.phase = "poll"
    /\ net.sockets[s].state = "Established"
    /\ net.sockets[s].rx = <<>>
    /\ net' = [net EXCEPT !.sockets[s].rx = words]
    /\ UNCHANGED <<channels, halted, sampled, timer_ms, last, cpu, boot, sess>>

\* server.poll brings in the FIN of a connected client
ClientClose(s) ==
    /\ ~halted /\ ~net.reset
    /\ net.phase = "poll"
    /\ net.sockets[s].state = "Established"
    /\ net' = [net EXCEPT !.sockets[s].state = "CloseWait"]
    /\ UNCHANGED <<channels, halted, sampled, timer_ms, last, cpu, boot, sess>>

\* server.poll sends queued bytes of socket s which the client acknowledges
ClientAck(s) ==
    /\ ~halted /\ ~net.reset
    /\ net.phase = "poll"
    /\ net.sockets[s].tx > 0
    /\ net' = [net EXCEPT !.sockets[s].tx = @ - 1]
    /\ UNCHANGED <<channels, halted, sampled, timer_ms, last, cpu, boot, sess>>

\* server.poll returns: closing sockets have closed; the main loop tests
\* should_reset and starts for_each
ServerPoll ==
    /\ ~halted /\ ~net.reset
    /\ net.phase = "poll"
    /\ net' = [net EXCEPT
                 !.sockets = [s \in Socket |->
                                IF net.sockets[s].state = "Closing"
                                THEN TcpSocket_new ELSE net.sockets[s]],
                 !.phase = "serve", !.next = 0,
                 !.resetting = net.should_reset,
                 !.any_socket_alive = FALSE]
    /\ UNCHANGED <<channels, halted, sampled, timer_ms, last, cpu, boot, sess>>

\* for_each while should_reset was false: the callback on the next socket
ServeSocket ==
    /\ ~halted /\ ~net.reset
    /\ net.phase = "serve" /\ ~net.resetting
    /\ net.next < SocketsFollowed
    /\ LET r == serve(net.sockets[net.next], begin, net.should_reset)
       IN  /\ net' = [net EXCEPT !.sockets[net.next] = r.socket,
                                 !.should_reset = r.should_reset,
                                 !.next = @ + 1]
           /\ channels' = r.chs
           /\ IF r.did \in {"command", "error"}
              THEN Done(r.did, net.next, Some([parsed |-> r.parsed, reply |-> r.reply,
                                               free |-> TxCapacity - net.sockets[net.next].tx,
                                               after_reset |-> net.should_reset]))
              ELSE UNCHANGED last
    /\ UNCHANGED <<halted, sampled, timer_ms, cpu, boot, sess>>

\* for_each while should_reset was true: an active socket is aborted
AbortSocket ==
    /\ ~halted /\ ~net.reset
    /\ net.phase = "serve" /\ net.resetting
    /\ net.next < SocketsFollowed
    /\ net' = [net EXCEPT
                 !.sockets[net.next] = IF is_active(@) THEN abort(@) ELSE @,
                 !.any_socket_alive = @ \/ is_active(net.sockets[net.next]),
                 !.next = @ + 1]
    /\ UNCHANGED <<channels, halted, sampled, timer_ms, last, cpu, boot, sess>>

\* the end of the iteration: SCB::sys_reset when should_reset was true and
\* no socket was alive, otherwise the next iteration
EndIteration ==
    /\ ~halted /\ ~net.reset
    /\ net.phase = "serve"
    /\ net.next = SocketsFollowed
    /\ net' = IF net.resetting /\ ~net.any_socket_alive
              THEN [net EXCEPT !.reset = TRUE]
              ELSE [net EXCEPT !.phase = "poll"]
    /\ UNCHANGED <<channels, halted, sampled, timer_ms, last, cpu, boot, sess>>

\* Channels::new, calibrate_dac_value: one candidate of the search
CalibrateCandidate ==
    /\ ~halted
    /\ boot.pc = "sweep"
    /\ LET r == calibrate_candidate(begin, boot)
       IN  channels' = r.chs /\ boot' = r.boot
    /\ Done("calibrate", boot.channel, Some(boot.value))
    /\ UNCHANGED <<halted, sampled, timer_ms, cpu, net, sess>>

\* Channels::new, calibrate_dac_value: the reset of the DAC after the search
CalibrateReset ==
    /\ ~halted
    /\ boot.pc = "reset"
    /\ channels' = set_dac(begin, boot.channel, 0).chs
    /\ boot' = [boot EXCEPT !.pc = "set_i"]
    /\ Done("calibrate_reset", boot.channel, NoneV)
    /\ UNCHANGED <<halted, sampled, timer_ms, cpu, net, sess>>

\* Channels::new: set_i(channel, 0 A) after the calibration of the channel,
\* then the calibration of the next channel
BootSetI ==
    /\ ~halted
    /\ boot.pc = "set_i"
    /\ LET chs == set_i(begin, boot.channel, 0).chs
       IN  /\ channels' = chs
           /\ boot' = IF boot.channel + 1 < CHANNELS
                      THEN calibrate_start(chs, boot.channel + 1, boot.env)
                      ELSE [boot EXCEPT !.pc = "done"]
    /\ Done("boot_set_i", boot.channel, NoneV)
    /\ UNCHANGED <<halted, sampled, timer_ms, cpu, net, sess>>

\* socket.recv(|buf| session.feed(buf)) on the next n bytes of the stream:
\* the bytes feed reports as consumed leave the receive buffer, the others
\* are passed again with the next call
SessionFeed(n) ==
    /\ ~halted
    /\ sess.at + n <= Len(sess.stream)
    /\ LET buf == SubSeq(sess.stream, sess.at + 1, sess.at + n)
           r == Session_feed(sess.session, buf)
       IN  /\ sess' = [sess EXCEPT
                         !.session = r.session,
                         !.at = @ + r.buf_bytes,
                         !.out = IF r.input.type = "Nothing" THEN @ ELSE Append(@, r.input),
                         !.call = [buf |-> buf, pos |-> sess.session.reader.pos,
                                   buf_bytes |-> r.buf_bytes, input |-> r.input,
                                   line |-> r.line]]
           /\ halted' = r.panic
    /\ UNCHANGED <<channels, sampled, timer_ms, last, cpu, net, boot>>

\* server.poll completes the handshake of a client with the listening socket
ConnAccept ==
    /\ ~halted /\ ~net.reset
    /\ sess.socket.state = "Listen"
    /\ sess.conn < MaxConnections
    /\ sess' = [sess EXCEPT !.socket.state = "Established", !.conn = @ + 1]
    /\ UNCHANGED <<channels, halted, sampled, timer_ms, last, cpu, net, boot>>

\* server.poll brings in a segment of the connected client, who sends no
\* more than MaxConnLine bytes of lines ahead of the session
ConnBytes(bytes) ==
    /\ ~halted /\ ~net.reset
    /\ sess.socket.state = "Established"
    /\ Len(sess.socket.rx) + Len(bytes) <= RxCapacity
    /\ sess.session.reader.pos + Cardinality({i \in 1 .. Len(sess.socket.rx \o bytes) :
                                                (sess.socket.rx \o bytes)[i] # LF})
          <= MaxConnLine
    /\ sess' = [sess EXCEPT !.socket.rx = @ \o bytes]
    /\ UNCHANGED <<channels, halted, sampled, timer_ms, last, cpu, net, boot>>

\* server.poll brings in the FIN of the connected client
ConnFin ==
    /\ ~halted /\ ~net.reset
    /\ sess.socket.state = "Established"
    /\ sess' = [sess EXCEPT !.socket.state = "CloseWait"]
    /\ UNCHANGED <<channels, halted, sampled, timer_ms, last, cpu, net, boot>>

\* server.poll sends a queued byte which the client acknowledges
ConnAck ==
    /\ ~halted /\ ~net.reset
    /\ sess.socket.tx > 0
    /\ sess' = [sess EXCEPT !.socket.tx = @ - 1]
    /\ UNCHANGED <<channels, halted, sampled, timer_ms, last, cpu, net, boot>>

\* the rest of an iteration of the main loop for the socket while
\* should_reset is false: server.poll returns, a closing socket having
\* closed; then the callback of for_each
ConnIteration ==
    /\ ~halted /\ ~net.reset
    /\ ~net.should_reset
    /\ LET polled == IF sess.socket.state = "Closing" THEN TcpSocket_new
                     ELSE sess.socket
           r == serve_session(polled, sess.session, begin, net.should_reset)
       IN  /\ sess' = [sess EXCEPT
                         !.socket = r.socket,
                         !.session = r.session,
                         !.call = r.call,
                         !.dropped = IF is_active(polled) THEN @
                                     ELSE slice(sess.session.reader.buf,
                                                sess.session.reader.pos)]
           /\ net' = [net EXCEPT !.should_reset = r.should_reset]
           /\ channels' = r.chs
           /\ halted' = r.panic
    /\ UNCHANGED <<sampled, timer_ms, last, cpu, boot>>

\* main loop: channels.poll_adc at the beginning of an iteration, before
\* server.poll, finds a conversion of channel c
IterationPollAdc(c, data) ==
    /\ ~net.reset
    /\ net.phase = "poll"
    /\ PollAdc(c, data)

\* Command::Save of one channel and Command::Load of it right after: what was
\* saved is applied to the channel it was taken from
CmdSaveLoad(c) ==
    /\ ~halted
    /\ LET config == ChannelConfig_new(begin, c)
           r == ChannelConfig_apply(config, begin, c)
       IN  /\ channels' = r.chs
           /\ Done("save_load", c,
                   Some([config |-> config,
                         i_set |-> channel_state(channels, c).i_set,
                         pid_target |-> channel_state(channels, c).pid.target]))
    /\ UNCHANGED <<halted, sampled, timer_ms, cpu, net, boot, sess>>

\* The control loop of channel 0 with its commands: control ticks, setpoint,
\* PID, polarity and configuration commands
Next ==
    \/ PollAdcNone
    \/ \E data \in RawCodes : PollAdc(0, data)
    \/ \E value \in ISetRequests : CmdISet(0, value)
    \/ CmdEngagePid(0)
    \/ \E polarity \in Polarities : CmdPolarity(0, polarity)
    \/ \E cmd \in PidCommands : CmdPid(0, cmd[1], cmd[2])
    \/ \E config \in FlashConfigs : CmdLoad(0, config)

Spec == Init /\ [][Next]_vars

\* The setpoint path of channel 0: setpoint, center point, polarity, limit and
\* configuration commands between control ticks
NextSetpoint ==
    \/ SysTick
    \/ \E data \in SetpointRawCodes : PollAdc(0, data)
    \/ \E value \in ISetRequests : CmdISet(0, value)
    \/ \E value \in MaxIPosRequests : CmdMaxIPos(0, value)
    \/ \E value \in MaxINegRequests : CmdMaxINeg(0, value)
    \/ CmdEngagePid(0)
    \/ \E polarity \in Polarities : CmdPolarity(0, polarity)
    \/ \E center \in CenterCommands : CmdCenterPoint(0, center)
    \/ \E config \in FlashConfigs : CmdLoad(0, config)

SpecSetpoint == Init /\ [][NextSetpoint]_vars

\* The output limits of channel 0: limit, polarity, setpoint and configuration
\* commands
NextLimits ==
    \/ \E value \in MaxVRequests : CmdMaxV(0, value)
    \/ \E value \in LimitRequests : CmdMaxIPos(0, value)
    \/ \E value \in LimitRequests : CmdMaxINeg(0, value)
    \/ \E value \in ISetRequests : CmdISet(0, value)
    \/ \E polarity \in Polarities : CmdPolarity(0, polarity)
    \/ \E config \in FlashConfigs : CmdLoad(0, config)

SpecLimits == Init /\ [][NextLimits]_vars

\* The reporting operations between control ticks and commands of channel 0
NextReport ==
    \/ \E aux \in AuxSamples : CmdReport(aux)
    \/ CmdShowPid
    \/ CmdShowOutput
    \/ CmdShowPostFilter
    \/ CmdShowBParameter
    \/ \E aux \in AuxSamples : FanCycle(aux)
    \/ LedUpdate
    \/ \E data \in SetpointRawCodes : PollAdc(0, data)
    \/ \E value \in ISetRequests : CmdISet(0, value)
    \/ CmdEngagePid(0)
    \/ \E polarity \in Polarities : CmdPolarity(0, polarity)
    \/ \E config \in FlashConfigs : CmdLoad(0, config)

SpecReport == Init /\ [][NextReport]_vars

\* The PID controller of channel 0: control ticks between parameter commands
\* and configuration loads
NextPid ==
    \/ \E data \in RawCodes : PollAdc(0, data)
    \/ \E cmd \in PidTuningCommands : CmdPid(0, cmd[1], cmd[2])
    \/ CmdEngagePid(0)
    \/ \E config \in PidFlashConfigs : CmdLoad(0, config)

SpecPid == Init /\ [][NextPid]_vars

\* Boot with the calibration, then control ticks and commands of channel 0
NextCalibrated ==
    \/ \E data \in SetpointRawCodes : PollAdc(0, data)
    \/ \E value \in ISetRequests : CmdISet(0, value)
    \/ CmdEngagePid(0)
    \/ \E polarity \in Polarities : CmdPolarity(0, polarity)
    \/ \E center \in CenterCommands : CmdCenterPoint(0, center)
    \/ \E config \in FlashConfigs : CmdLoad(0, config)

SpecCalibrated == InitCalibrated /\ [][NextCalibrated]_vars

\* The postfilter commands of both channels, with the commands that show the
\* postfilters and load a stored configuration
NextPostFilter ==
    \/ \E c \in Channel, rate \in PostFilterRates : CmdPostFilter(c, rate)
    \/ \E c \in Channel : CmdPostFilterOff(c)
    \/ CmdShowPostFilter
    \/ \E c \in Channel, config \in FlashConfigs : CmdLoad(c, config)

SpecPostFilter == Init /\ [][NextPostFilter]_vars

\* The millisecond counter: real time, the SysTick timer and its exception,
\* and a thread that calls now() and sleep()
NextTimer ==
    \/ Elapse
    \/ SysTickExpire
    \/ SysTickTaken
    \/ CallNow
    \/ \E amount \in SleepAmounts : CallSleep(amount)
    \/ SleepPoll
    \/ NowBorrow
    \/ NowDeref
    \/ NowDrop
    \/ NowReturn

SpecTimer == Init /\ [][NextTimer]_vars

\* the timer keeps ticking and the processor keeps executing
SpecTimerFair ==
    /\ SpecTimer
    /\ WF_vars(Elapse) /\ WF_vars(SysTickExpire) /\ WF_vars(SysTickTaken)
    /\ WF_vars(SleepPoll) /\ WF_vars(NowBorrow) /\ WF_vars(NowDeref)
    /\ WF_vars(NowDrop) /\ WF_vars(NowReturn)

\* Both channels with the operations addressed to one channel: on channel 0
\* control ticks with valid and sentinel samples, setpoint, limits, polarity
\* and the load of the stored configuration that engages the PID; on
\* channel 1 control ticks and the load of that configuration
NextFrame ==
    \/ \E data \in SetpointRawCodes : PollAdc(0, data)
    \/ \E value \in FrameISetRequests : CmdISet(0, value)
    \/ \E value \in FrameMaxVRequests : CmdMaxV(0, value)
    \/ \E value \in MaxIPosRequests : CmdMaxIPos(0, value)
    \/ \E value \in MaxINegRequests : CmdMaxINeg(0, value)
    \/ \E polarity \in Polarities : CmdPolarity(0, polarity)
    \/ \E config \in FrameFlashConfigs : CmdLoad(0, config)
    \/ \E data \in SetpointRawCodes : PollAdc(1, data)
    \/ \E config \in FrameFlashConfigs : CmdLoad(1, config)

SpecFrame == Init /\ [][NextFrame]_vars

\* The control loop of channel 0 with SPI transfers that fail
NextFault ==
    \/ SysTick
    \/ \E data \in RawCodes : PollAdc(0, data)
    \/ \E data \in RawCodes, fault \in IoFaults : PollAdcFault(0, data, fault)
    \/ \E value \in ISetRequests : CmdISet(0, value)
    \/ CmdEngagePid(0)

SpecFault == Init /\ [][NextFault]_vars

\* The command lines of a client, parsed and handled
NextParser ==
    \E words \in CommandLines : RecvLine(words)

SpecParser == Init /\ [][NextParser]_vars

\* The command lines for a channel, parsed and handled
NextChannelLines ==
    \E words \in ChannelLines : RecvLine(words)

SpecChannelLines == Init /\ [][NextChannelLines]_vars

\* The TCP server in the main loop: clients connect, send command lines,
\* acknowledge replies and close; each iteration polls the server and then
\* serves or, once should_reset is set, aborts the sockets
NextServer ==
    \/ \E s \in Socket : ClientConnect(s)
    \/ \E words \in ServerLines : ClientLine(0, words)
    \/ \E s \in Socket \ {0}, words \in SecondSocketLines : ClientLine(s, words)
    \/ \E s \in Socket : ClientClose(s)
    \/ \E s \in Socket : ClientAck(s)
    \/ ServerPoll
    \/ ServeSocket
    \/ AbortSocket
    \/ EndIteration

SpecServer == Init /\ [][NextServer]_vars

\* Channels::new from the constructed channels on: the calibration of each
\* channel, candidate by candidate, and its set_i
InitCalibration ==
    /\ \E env \in CalibrationInputs :
          LET chs == Channels_constructed(CHOOSE vref_code \in [Channel -> VrefCodes] : TRUE)
          IN  channels = chs /\ boot = calibrate_start(chs, 0, env)
    /\ halted = FALSE
    /\ sampled = [c \in Channel |-> -1]
    /\ timer_ms = 0
    /\ last = NoOp
    /\ cpu = Cpu_reset
    /\ net = Net_boot
    /\ sess = Sess_idle

NextCalibration ==
    \/ CalibrateCandidate
    \/ CalibrateReset
    \/ BootSetI

SpecCalibration == InitCalibration /\ [][NextCalibration]_vars

\* A Session fed with a byte stream in pieces of any length
InitSession ==
    /\ channels = Channels_new(CHOOSE vref_code \in [Channel -> VrefCodes] : TRUE)
    /\ \E stream \in SessionStreams : sess = [Sess_idle EXCEPT !.stream = stream]
    /\ halted = FALSE
    /\ sampled = [c \in Channel |-> -1]
    /\ timer_ms = 0
    /\ last = NoOp
    /\ cpu = Cpu_reset
    /\ net = Net_boot
    /\ boot = Boot_done

NextSession ==
    \E n \in 1 .. (MAX_LINE_LEN + MaxShort) : SessionFeed(n)

SpecSession == InitSession /\ [][NextSession]_vars

\* One socket of the server and its session over several connections
InitConnection ==
    /\ channels = Channels_new(CHOOSE vref_code \in [Channel -> VrefCodes] : TRUE)
    /\ sess = Sess_idle
    /\ halted = FALSE
    /\ sampled = [c \in Channel |-> -1]
    /\ timer_ms = 0
    /\ last = NoOp
    /\ cpu = Cpu_reset
    /\ net = Net_boot
    /\ boot = Boot_done

NextConnection ==
    \/ ConnAccept
    \/ \E bytes \in ConnSegments(sess.conn) : ConnBytes(bytes)
    \/ ConnFin
    \/ ConnAck
    \/ ConnIteration

SpecConnection == InitConnection /\ [][NextConnection]_vars

\* The main loop: the control tick at the beginning of each iteration, then
\* the server
NextMainLoop ==
    \/ \E data \in MainLoopRawCodes : IterationPollAdc(0, data)
    \/ ClientConnect(0)
    \/ \E words \in MainLoopLines : ClientLine(0, words)
    \/ ClientClose(0)
    \/ ClientAck(0)
    \/ ServerPoll
    \/ ServeSocket
    \/ AbortSocket
    \/ EndIteration

SpecMainLoop == Init /\ [][NextMainLoop]_vars

\* Saving and loading the configuration of channel 0 between control ticks and
\* the commands that change what a configuration holds
NextConfig ==
    \/ PollAdc(0, 8305408)
    \/ CmdISet(0, OneAmp)
    \/ CmdMaxV(0, 3000)
    \/ \E target \in ConfigTargets : CmdPid(0, "Target", target)
    \/ CmdEngagePid(0)
    \/ CmdPolarity(0, "Reversed")
    \/ CmdPostFilter(0, 21000)
    \/ \E config \in FlashConfigs : CmdLoad(0, config)
    \/ CmdSaveLoad(0)

SpecConfig == Init /\ [][NextConfig]_vars

----------------------------------------------------------------------------
(* Properties *)

Abs(x) == IF x < 0 THEN -x ELSE x

State(c) == channel_state(channels, c)

\* poll_adc was the last operation and it serviced channel c
Serviced(c) == last.op = "poll_adc" /\ last.channel = c

\* C1: whenever poll_adc has serviced a channel whose raw code is the sentinel
\* 0xFFFFFF while the channel's pid_engaged is true, the channel's actuator is
\* powered down at the end of that call.
C1_SentinelPowersDown ==
    \A c \in Channel :
        (Serviced(c) /\ sampled[c] = AD7172_MAX_VALUE /\ State(c).pid_engaged)
            => ~channels.channel[c].shdn

\* an engaged channel holding a setpoint of 2 A is shut down by a sentinel sample
C1_Witness ==
    /\ Serviced(0) /\ sampled[0] = AD7172_MAX_VALUE /\ State(0).pid_engaged
    /\ State(0).i_set = MAX_TEC_I
    /\ ~channels.channel[0].shdn
    /\ channels.io = <<[dev |-> "shdn", channel |-> 0, value |-> 0]>>

\* C2: in every reachable state each channel's stored i_set lies in
\* [-MAX_TEC_I, MAX_TEC_I], and every value set_i returned or can return for a
\* request, also one beyond the limit, has magnitude at most MAX_TEC_I.
C2_ISetWithinMaxTecI ==
    \A c \in Channel :
        /\ Abs(State(c).i_set) <= MAX_TEC_I
        /\ last.ret.some => Abs(last.ret.v) <= MAX_TEC_I
        /\ \A i \in ISetRequests : Abs(set_i(channels, c, i).ret) <= MAX_TEC_I

\* a request of 3 A was answered with 2 A
C2_Witness ==
    /\ last.op = "i_set" /\ last.channel = 0
    /\ last.ret = Some(MAX_TEC_I)
    /\ State(0).i_set = MAX_TEC_I

\* what the queries give for the raw code of the most recent sample
ReadingOf(raw) ==
    LET st == [ChannelState_new EXCEPT
                  !.adc_data = IF raw = AD7172_MAX_VALUE THEN NoneV ELSE Some(raw)]
    IN  [adc |-> get_adc(st), sens |-> get_sens(st), temperature |-> get_temperature(st)]

\* C3: whenever adc_data is absent, get_adc, get_sens and get_temperature are
\* absent, and after a sample the three queries give the values of that most
\* recent sample, never those of an earlier one.
C3_AbsentSampleAbsentReadings ==
    \A c \in Channel :
        /\ ~State(c).adc_data.some =>
              /\ get_adc(State(c)) = NoneV
              /\ get_sens(State(c)) = NoneV
              /\ get_temperature(State(c)) = NoneV
        /\ sampled[c] # -1 =>
              /\ get_adc(State(c)) = ReadingOf(sampled[c]).adc
              /\ get_sens(State(c)) = ReadingOf(sampled[c]).sens
              /\ get_temperature(State(c)) = ReadingOf(sampled[c]).temperature

\* the sentinel arrived after a valid sample had been fed to the PID
C3_Witness ==
    /\ sampled[0] = AD7172_MAX_VALUE
    /\ State(0).pid.x1 = 305
    /\ get_temperature(State(0)) = NoneV

\* C4: after ChannelState::update(now, raw), adc_data is absent if and only if
\* raw is 0xFFFFFF, and for every other raw code it holds exactly that code.
C4_AbsentIffSentinel ==
    \A c \in Channel :
        sampled[c] # -1 =>
            /\ ~State(c).adc_data.some <=> sampled[c] = AD7172_MAX_VALUE
            /\ State(c).adc_data.some => State(c).adc_data.v = sampled[c]

\* a valid code was stored as it came
C4_Witness ==
    /\ Serviced(0)
    /\ sampled[0] = 7340032
    /\ State(0).adc_data = Some(7340032)

\* C5: when poll_adc has serviced a channel with a valid sample while
\* pid_engaged is true, the PID output of that sample is the channel's setpoint
\* (set through set_i) and the actuator is powered up.
C5_ValidSampleDrivesSetpoint ==
    \A c \in Channel :
        (Serviced(c) /\ State(c).adc_data.some /\ State(c).pid_engaged) =>
            /\ channels.channel[c].shdn
            /\ State(c).i_set = clamp_i_set(State(c).pid.y1)
            /\ last.ret = Some(State(c).i_set)

\* the center voltage the center point of a channel stands for: the reference
\* voltage tracked in vref_meas for VRef, v for Override(v)
center_voltage(chs, c) ==
    IF channel_state(chs, c).center.tag = "VRef"
    THEN chs.channel[c].vref_meas
    ELSE channel_state(chs, c).center.v

\* C6: dac_value is the voltage of the DAC code actually written, and the
\* current set_i returns is that quantized voltage inverted.
C6_DacValueIsQuantized ==
    \A c \in Channel :
        /\ State(c).dac_value = dac_code_voltage(channels.channel[c].dac)
        /\ (last.op = "i_set" /\ last.channel = c) =>
              last.ret.v = (negate_of(State(c).polarity)
                              * (dac_code_voltage(channels.channel[c].dac)
                                   - channels.channel[c].vref_meas)) \div TEN_R_SENSE

\* C7: the DAC voltage set_i produces is sign * current * gain * R_sense plus the
\* center voltage of the channel's center point.
C7_CentredOnCenterPoint ==
    \A c \in Channel :
        (last.op = "i_set" /\ last.channel = c) =>
            State(c).dac_value =
                negate_of(State(c).polarity) * State(c).i_set * TEN_R_SENSE
                  + center_voltage(channels, c)

\* C8: a second set_i with the same request gives the same return value, the
\* same channel state and the same DAC code as the first.
C8_SetIIdempotent ==
    \A c \in Channel, i \in ISetRequests :
        LET once == set_i(begin, c, i)
            twice == set_i([once.chs EXCEPT !.io = <<>>], c, i)
        IN  twice = once

\* the setpoint of 1 A was applied again by the center point command
C8_Witness ==
    /\ last.op = "center" /\ last.channel = 0
    /\ last.ret = Some(OneAmp)
    /\ State(0).i_set = OneAmp
    /\ channels.io = <<[dev |-> "dac", channel |-> 0, value |-> channels.channel[0].dac]>>

with_polarity(chs, c, polarity) == [chs EXCEPT !.channel[c].state.polarity = polarity]

\* C9: the same request under polarity Normal and under polarity Reversed gives
\* DAC voltages at equal distance on opposite sides of the center voltage, and
\* the same returned current.
C9_PolaritySymmetric ==
    \A c \in Channel, i \in ISetRequests :
        LET n == set_i(with_polarity(channels, c, "Normal"), c, i)
            r == set_i(with_polarity(channels, c, "Reversed"), c, i)
            center == center_voltage(channels, c)
        IN  /\ channel_state(n.chs, c).dac_value - center
                 = -(channel_state(r.chs, c).dac_value - center)
            /\ n.ret = r.ret

\* C10: set_polarity with the polarity the channel already has writes neither
\* the DAC nor a PWM pin and leaves the channels unchanged.  (A step that ends
\* with last.op = "polarity" and does not advance the timer is a polarity
\* command: the timer interrupt is the only step that leaves last alone.)
C10_SamePolarityIsNoOp ==
    [][\A c \in Channel :
          (last'.op = "polarity" /\ last'.channel = c /\ timer_ms' = timer_ms
             /\ channel_state(channels', c).polarity = State(c).polarity)
          => channels' = begin]_vars

\* a reversed channel with a setpoint and limits was told to be Reversed
C10_Witness ==
    /\ last.op = "polarity" /\ last.channel = 0
    /\ channels.io = <<>>
    /\ State(0).polarity = "Reversed"
    /\ State(0).i_set = OneAmp
    /\ State(0).output_limits.max_i_pos = 1500

\* the duty a current limit of ma milliampere puts on its pin
limit_duty(ma) ==
    Min(as_u32(ma * get_max_duty("MaxIPos"), 2 * CPU_ADC_VREF), get_max_duty("MaxIPos"))

\* the limit pins of channel c carry the stored limits under its polarity
LimitPinsFollowPolarity(c) ==
    LET limits == State(c).output_limits
        normal == State(c).polarity = "Normal"
    IN  /\ channels.pwm[c]["MaxIPos"]
             = limit_duty(IF normal THEN limits.max_i_pos ELSE limits.max_i_neg)
        /\ channels.pwm[c]["MaxINeg"]
             = limit_duty(IF normal THEN limits.max_i_neg ELSE limits.max_i_pos)

\* C11: the MaxIPos pin carries the duty of max_i_pos under polarity Normal and
\* that of max_i_neg under Reversed, the MaxINeg pin carries the other one, and
\* a polarity command leaves the stored i_set, max_i_pos and max_i_neg as they
\* were.
C11_LimitPinsFollowPolarity ==
    /\ [](\A c \in Channel : LimitPinsFollowPolarity(c))
    /\ [][\A c \in Channel :
            (last'.op = "polarity" /\ last'.channel = c)
            => /\ channel_state(channels', c).i_set = State(c).i_set
               /\ channel_state(channels', c).output_limits = State(c).output_limits]_vars

\* the polarity command moved the limits of 1.5 A and 2 A to the other pins
C11_Witness ==
    /\ last.op = "polarity" /\ last.channel = 0
    /\ State(0).polarity = "Reversed"
    /\ State(0).output_limits.max_i_pos = 1500
    /\ State(0).output_limits.max_i_neg = MAX_TEC_I_MA
    /\ channels.pwm[0]["MaxINeg"] = limit_duty(1500)
    /\ channels.pwm[0]["MaxIPos"] = limit_duty(MAX_TEC_I_MA)
    /\ Len(channels.io) = 3

\* C12: max_v lies in [0, MAX_TEC_V], max_i_pos and max_i_neg lie in
\* [0, MAX_TEC_I]; negative and too large requests are saturated and no limit
\* command stops the firmware.
C12_LimitsWithinDeviceMaximum ==
    \A c \in Channel :
        LET limits == State(c).output_limits
        IN  /\ 0 <= limits.max_v /\ limits.max_v <= MAX_TEC_V
            /\ 0 <= limits.max_i_pos /\ limits.max_i_pos <= MAX_TEC_I_MA
            /\ 0 <= limits.max_i_neg /\ limits.max_i_neg <= MAX_TEC_I_MA
            /\ \A v \in MaxVRequests :
                  channel_state(set_max_v(channels, c, v).chs, c).output_limits.max_v
                      = IF v < 0 THEN 0 ELSE IF v > MAX_TEC_V THEN MAX_TEC_V ELSE v
            /\ \A i \in LimitRequests :
                  /\ channel_state(set_max_i_pos(channels, c, i).chs, c).output_limits.max_i_pos
                        = IF i < 0 THEN 0 ELSE IF i > MAX_TEC_I_MA THEN MAX_TEC_I_MA ELSE i
                  /\ channel_state(set_max_i_neg(channels, c, i).chs, c).output_limits.max_i_neg
                        = IF i < 0 THEN 0 ELSE IF i > MAX_TEC_I_MA THEN MAX_TEC_I_MA ELSE i
            /\ ~halted

\* a negative, a too large and a too large request were saturated
C12_Witness ==
    /\ last.op = "max_i_pos" /\ last.channel = 0
    /\ State(0).output_limits = [max_v |-> MAX_TEC_V, max_i_pos |-> 0,
                                 max_i_neg |-> MAX_TEC_I_MA]
    /\ channels.pwm[0]["MaxIPos"] = 0

\* what a limit setter returned for a clamped request, in units of 1 / ret_den:
\* achieved <= request, request - achieved < one duty step, and the ceiling
AchievedWithinOneStep(r, request, step_num, ceiling) ==
    /\ r.ret_num <= request * r.ret_den
    /\ request * r.ret_den - r.ret_num < step_num
    /\ r.ceiling = ceiling

\* C13: each limit setter returns (achieved, ceiling): achieved is the limit of
\* the duty actually written, it does not exceed the clamped request and is
\* less than one duty step below it, ceiling is the device maximum, and no
\* duty written exceeds the pin's maximum duty.
C13_AchievedFromAppliedDuty ==
    \A c \in Channel :
        /\ \A pin \in PwmPins : channels.pwm[c][pin] <= get_max_duty(pin)
        /\ \A v \in MaxVRequests :
              LET r == set_max_v(channels, c, v)
                  duty == r.chs.pwm[c]["MaxV"]
              IN  /\ r.ret_num = 4 * duty * CPU_ADC_VREF
                  /\ r.ret_den = get_max_duty("MaxV")
                  /\ AchievedWithinOneStep(r,
                        channel_state(r.chs, c).output_limits.max_v,
                        4 * CPU_ADC_VREF, MAX_TEC_V)
        /\ \A i \in LimitRequests :
              LET p == set_max_i_pos(channels, c, i)
                  n == set_max_i_neg(channels, c, i)
              IN  /\ AchievedWithinOneStep(p,
                        channel_state(p.chs, c).output_limits.max_i_pos,
                        2 * CPU_ADC_VREF, MAX_TEC_I_MA)
                  /\ AchievedWithinOneStep(n,
                        channel_state(n.chs, c).output_limits.max_i_neg,
                        2 * CPU_ADC_VREF, MAX_TEC_I_MA)

\* the limit of 1.5 A was written as the duty 954 of 4200, which is 1.4991 A
C13_Witness ==
    /\ last.op = "max_i_neg" /\ last.channel = 0
    /\ State(0).polarity = "Normal"
    /\ State(0).output_limits.max_i_neg = 1500
    /\ channels.pwm[0]["MaxINeg"] = 954
    /\ channels.io = <<[dev |-> "MaxINeg", channel |-> 0, value |-> 954]>>

ReportOps ==
    {"report", "show_pid", "show_output", "show_postfilter", "show_b_parameter",
     "current_abs_max_tec_i", "pid_engaged"}

\* C14: for the same auxiliary samples, get_tec_i under Reversed is the
\* negation of get_tec_i under Normal, and get_tec_v under Reversed is the
\* negation of get_tec_v under Normal.
C14_TelemetryFollowsPolarity ==
    \A c \in Channel, aux \in AuxSamples :
        LET n == with_polarity(channels, c, "Normal")
            r == with_polarity(channels, c, "Reversed")
        IN  /\ get_tec_i(r, c, aux) = -get_tec_i(n, c, aux)
            /\ get_tec_v(r, c, aux) = -get_tec_v(n, c, aux)

\* C15: a reporting operation leaves the state of every channel, its
\* vref_meas, DAC code and power state, the PWM duties and the postfilters as
\* they were, and writes to no device.
C15_ReportsLeaveControlState ==
    [][last'.op \in ReportOps
         => /\ channels'.channel = channels.channel
            /\ channels'.pwm = channels.pwm
            /\ channels'.postfilter = channels.postfilter
            /\ channels'.io = <<>>]_vars

\* a report was made of an engaged, powered, reversed channel driven by the PID
C15_Witness ==
    /\ last.op = "report"
    /\ last.ret = Some(-2505)
    /\ State(0).pid_engaged /\ channels.channel[0].shdn
    /\ State(0).polarity = "Reversed"
    /\ State(0).i_set = MAX_TEC_I
    /\ State(0).adc_data.some
    /\ channels.io = <<>>

\* the vref_meas the calibration at boot assigns for the inputs env
calibrated_vref(env) ==
    search_dac_value(millivolt(adc_read(env.vref)), env.tf).vref

\* C16: calibrate_dac_value runs once per channel inside Channels::new, before
\* the first poll_adc: every channel's vref_meas is the one the calibration at
\* boot assigned, and no control tick, command or configuration load changes it.
C16_CalibratedOnceAtBoot ==
    /\ [](\A c \in Channel :
            \E env \in CalibrationInputs :
                calibrated_vref(env) = Some(channels.channel[c].vref_meas))
    /\ [][\A c \in Channel :
            channels'.channel[c].vref_meas = channels.channel[c].vref_meas]_vars

\* after a control tick and a center point override the reference found at
\* boot (code 130977 for the nominal transfer function) is still in place
C16_Witness ==
    /\ last.op = "center" /\ last.channel = 0
    /\ sampled[0] # -1
    /\ State(0).center = CenterOverride(MAX_TEC_I)
    /\ channels.channel[0].vref_meas = dac_code_voltage(130977)
    /\ State(0).dac_value = channels.channel[0].vref_meas + OneAmp

\* the search for the inputs env ends at a code whose feedback voltage is at
\* most the target and less than the voltage of 2^5 codes below it
SearchWithinFinestStep(env) ==
    LET target_voltage == millivolt(adc_read(env.vref))
        search == search_dac_value(target_voltage, env.tf)
        error == target_voltage - dac_feedback(env.tf, search.start_value)
    IN  /\ search.vref = Some(dac_code_voltage(search.start_value))
        /\ search.best_error = error
        /\ 0 <= error
        /\ error * env.tf.den < 32 * env.tf.num

Updated(c) == Serviced(c) /\ State(c).adc_data.some /\ ~halted

\* temperatures of the valid raw codes and of an open thermistor input, in
\* tenths of a degree
Temperatures == {250, 305, -848}

FreshOutputs(parameters, target, first, second) ==
    LET u1 == Controller_update([Controller_new(parameters) EXCEPT !.target = target], first)
        u2 == Controller_update(u1.pid, second)
    IN  <<u1.output, u2.output>>

C20_HistoryIsLastTwoInputs ==
    [][\A c \in Channel :
          LET before == State(c).pid
              after == channel_state(channels', c).pid
              updated == /\ last'.op = "poll_adc" /\ last'.channel = c
                         /\ channel_state(channels', c).adc_data.some
                         /\ ~halted'
          IN  IF updated
              THEN /\ after.x1 = get_temperature(channel_state(channels', c)).v
                   /\ after.x2 = before.x1
                   /\ after.y1 = Controller_update(before, after.x1).output
                   /\ channel_state(channels', c).pid_engaged
                         => channel_state(channels', c).i_set = clamp_i_set(after.y1)
              ELSE /\ after.x1 = before.x1
                   /\ after.x2 = before.x2
                   /\ after.y1 = before.y1]_vars

\* the history holds the samples of 30.5 and 25.0 degree in the order they came
C20_Witness ==
    /\ Updated(0)
    /\ sampled[0] = 7340032
    /\ State(0).pid.x1 = get_temperature(State(0)).v
    /\ State(0).pid.x2 # State(0).pid.x1
    /\ State(0).pid.x2 # 0
    /\ State(0).pid.y1 # 0

----------------------------------------------------------------------------
(* The postfilter menu *)

\* the distance of a rate to the output rate of the i-th preset of the menu
RateError(i, rate) == Abs(rate - output_rate(VALID_VALUES[i]).v)

\* filter is a preset with the smallest distance to rate, and the first of
\* the menu among those with that distance
NearestFirstInMenu(filter, rate) ==
    \E i \in 1..Len(VALID_VALUES) :
        /\ VALID_VALUES[i] = filter
        /\ \A j \in 1..Len(VALID_VALUES) :
              /\ RateError(i, rate) <= RateError(j, rate)
              /\ j < i => RateError(i, rate) < RateError(j, rate)

\* C21: the postfilter command stores the preset PostFilter::closest chose,
\* which is the preset of the menu {27.27, 25, 20, 16.667} SPS with the
\* smallest absolute difference to the rate, the first in the menu when two
\* are equally close; for 21 SPS it is the 20 SPS preset
C21_ClosestPreset ==
    last.op = "postfilter" =>
        /\ closest(last.ret.v).some
        /\ channels.postfilter[last.channel] = closest(last.ret.v).v
        /\ NearestFirstInMenu(channels.postfilter[last.channel], last.ret.v)
        /\ last.ret.v = 21000 => channels.postfilter[last.channel] = "F20SPS"

\* a rate of 22.5 SPS, as far from 25 SPS as from 20 SPS, selected 25 SPS
C21_Witness ==
    /\ last.op = "postfilter"
    /\ last.ret.v = 22500
    /\ channels.postfilter[last.channel] = "F25SPS"

----------------------------------------------------------------------------
(* The millisecond counter *)

\* the thread is inside the closure of now()
InsideNow == cpu.pc \in {"now_cs", "now_borrowed", "now_read", "now_dropped"}

\* C22: TIMER_MS is read and updated with interrupts masked: the SysTick
\* handler never meets a borrowed counter (no panic), every expiry of the
\* timer is counted (none is lost: the counter is TIMER_DELTA times the
\* expiries taken), the thread holds a Ref only with interrupts masked, the
\* results of successive now() calls never decrease, and the value now()
\* returns is the value the counter holds when it returns
C22_CounterAccessIsAtomic ==
    /\ [](/\ ~halted
          /\ timer_ms = TIMER_DELTA * (cpu.fired - (IF cpu.pending THEN 1 ELSE 0))
          /\ InsideNow => cpu.primask
          /\ cpu.borrow > 0 => cpu.primask
          /\ cpu.pc \in {"now_read", "now_dropped"} => cpu.read = timer_ms
          /\ cpu.prev <= cpu.ret
          /\ cpu.ret <= timer_ms)
    /\ [][cpu.pc = "now_dropped" /\ cpu'.pc # "now_dropped"
            => cpu'.ret = timer_ms /\ timer_ms' = timer_ms]_vars

\* now() returned a counter value after the SysTick handler had run while
\* an earlier expiry had become pending inside a critical section
C22_Witness ==
    /\ last.op = "now"
    /\ last.ret.v = 2 * TIMER_DELTA
    /\ cpu.prev = TIMER_DELTA
    /\ cpu.pending
    /\ InsideNow

\* C23: sleep(amount) returns only after at least amount ms of real time
\* have passed since the call, for odd and even amounts
C23_SleepLastsAmount ==
    last.op = "sleep" /\ cpu.pc = "main" =>
        cpu.real - cpu.called_at >= last.ret.v * RealSub

\* sleep(amount) returns when the timer keeps ticking and the thread keeps running
SleepReturns == (cpu.pc = "sleep_loop") ~> (cpu.pc = "main")

----------------------------------------------------------------------------
(* Independence of the channels *)

\* the operations addressed to one channel
ChannelOps ==
    {"poll_adc", "i_set", "max_v", "max_i_pos", "max_i_neg", "polarity", "load"}

\* C24: an operation addressed to channel c (a control tick servicing c,
\* with a valid or a sentinel sample; set_i; a limit setter; set_polarity;
\* a configuration load) leaves the other channel's ChannelState, vref_meas,
\* DAC code, power state and PWM limit outputs as they were
C24_OtherChannelUnchanged ==
    [][\A c \in Channel :
          last'.op \in ChannelOps /\ last'.channel = c =>
              /\ channels'.channel[1 - c] = channels.channel[1 - c]
              /\ channels'.pwm[1 - c] = channels.pwm[1 - c]]_vars

\* channel 0, engaged, was powered down by a sentinel sample while channel 1
\* is powered up with a setpoint, limits and reversed polarity of its own
C24_Witness ==
    /\ last.op = "poll_adc" /\ last.channel = 0
    /\ sampled[0] = AD7172_MAX_VALUE
    /\ State(0).pid_engaged /\ ~channels.channel[0].shdn
    /\ channels.channel[1].shdn
    /\ State(1).polarity = "Reversed"
    /\ channels.pwm[1]["MaxV"] > 0
    /\ channels.channel[1].dac # channels.channel[0].dac

----------------------------------------------------------------------------
(* Device errors during a control tick *)

\* C25: an I/O error of the ADC or the DAC during a control tick (data_ready,
\* read_data or the DAC write inside poll_adc) does not abort the program:
\* the control loop keeps running after the tick
C25_IoErrorKeepsLoopRunning ==
    last.op = "poll_adc_fault" => ~halted

----------------------------------------------------------------------------
(* The command parser *)

\* the line is `pwm <channel> polarity <normal|reversed>`
IsPwmPolarityLine(words) ==
    /\ Len(words) = 4
    /\ words[1] = "pwm"
    /\ words[2] \in {"0", "1"}
    /\ words[3] = "polarity"
    /\ words[4] \in {"normal", "reversed"}

\* the line is `output <channel> polarity <normal|reversed>`
IsOutputPolarityLine(words) ==
    /\ Len(words) = 4
    /\ words[1] = "output"
    /\ words[2] \in {"0", "1"}
    /\ words[3] = "polarity"
    /\ words[4] \in {"normal", "reversed"}

\* the parse result is Command::OutputPolarity with the channel and the
\* polarity the line names
ParsedAsOutputPolarity(words, parsed) ==
    /\ parsed.ok
    /\ parsed.cmd.type = "OutputPolarity"
    /\ parsed.cmd.channel = (IF words[2] = "0" THEN 0 ELSE 1)
    /\ parsed.cmd.polarity = (IF words[4] = "normal" THEN "Normal" ELSE "Reversed")

\* C26: the command line `pwm <channel> polarity <normal|reversed>` parses
\* to Command::OutputPolarity with that channel and polarity
C26_PwmPolarityParses ==
    last.op = "command" /\ IsPwmPolarityLine(last.ret.v.line) =>
        ParsedAsOutputPolarity(last.ret.v.line, last.ret.v.parsed)

\* the same line with the tag the parser has, `output`, parses to
\* Command::OutputPolarity and sets the polarity of the channel
OutputPolarityParses ==
    last.op = "command" /\ IsOutputPolarityLine(last.ret.v.line) =>
        /\ ParsedAsOutputPolarity(last.ret.v.line, last.ret.v.parsed)
        /\ State(last.ret.v.parsed.cmd.channel).polarity = last.ret.v.parsed.cmd.polarity

----------------------------------------------------------------------------
(* The TCP server *)

\* the step served a socket whose handler sent a line
SentLine == last.op \in {"command", "error"} /\ LineLen(last.ret.v.parsed) > 0

\* C27: send_line is all-or-nothing: whatever the line and the free space
\* of the send buffer, it either queues the whole line and a newline and
\* returns true, or queues nothing and returns false
C27_SendLineAllOrNothing ==
    SentLine =>
        LET r == last.ret.v.reply
            len == LineLen(last.ret.v.parsed)
        IN  \/ r.ret /\ r.data = len /\ r.newline = 1
            \/ ~r.ret /\ r.data = 0 /\ r.newline = 0

\* with room for the line and its newline send_line queues both and
\* returns true; with less room than the line needs less one byte it queues
\* nothing and returns false
SendLineWithRoomOrWithout ==
    SentLine =>
        LET r == last.ret.v.reply
            len == LineLen(last.ret.v.parsed)
            free == last.ret.v.free
        IN  /\ len + 1 <= free => r.ret /\ r.data = len /\ r.newline = 1
            /\ len > free + 1 => ~r.ret /\ r.data = 0 /\ r.newline = 0

\* C30: once a Reset or Dfu command was handled no further command is
\* executed on any socket; SCB::sys_reset is called only at the end of an
\* iteration that found no socket active, when every socket that was active
\* has been aborted
C30_ResetStopsCommands ==
    /\ [][net.should_reset => last' = last]_vars
    /\ [][net'.reset /\ ~net.reset =>
            /\ net.resetting /\ ~net.any_socket_alive
            /\ \A s \in Socket : ~is_active(net.sockets[s])]_vars
    /\ [](net.reset => \A s \in Socket : ~is_active(net.sockets[s]))

\* from the iteration after the one that handled Reset or Dfu on, no
\* command is executed, and sys_reset follows an iteration without active
\* sockets
ResetStopsLaterIterations ==
    /\ [][net.resetting => last' = last]_vars
    /\ [][net'.reset /\ ~net.reset =>
            /\ net.resetting /\ ~net.any_socket_alive
            /\ \A s \in Socket : ~is_active(net.sockets[s])]_vars
    /\ [](net.reset => \A s \in Socket : ~is_active(net.sockets[s]))

----------------------------------------------------------------------------
(* The calibration sweep *)

\* the error of the candidate the search is about to try
CandidateError == boot.target_voltage - dac_feedback(boot.env.tf, boot.value)

\* the calibration of both channels, step by step, ends in the state that
\* Channels::new gives with the search as a whole
CalibrationAgreesWithSearch ==
    boot.pc = "done" =>
        [channels EXCEPT !.io = <<>>] = Channels_new_calibrated([c \in Channel |-> boot.env])

\* C28: at one step size the candidates start at the best code so far and
\* go up by the step size, not beyond the maximum code; each candidate is
\* written to the DAC; after a candidate with a negative error no further
\* candidate of that step size is written and the search goes on with the
\* next smaller step size, from 2^17 down to 2^5, at the best code so far
C28_SweepOrder ==
    /\ [](boot.pc = "sweep" =>
            /\ boot.step \in 5..17
            /\ boot.value <= AD5680_MAX_VALUE
            /\ boot.value >= boot.start_value
            /\ (boot.value - boot.start_value) % 2^boot.step = 0)
    /\ [][boot.pc = "sweep" =>
            /\ channels'.channel[boot.channel].dac = boot.value
            /\ boot'.pc = "sweep" /\ boot'.step = boot.step =>
                  /\ CandidateError >= 0
                  /\ boot'.value = boot.value + 2^boot.step
            /\ boot'.pc = "sweep" /\ boot'.step # boot.step =>
                  /\ boot'.step = boot.step - 1
                  /\ boot'.value = boot'.start_value
            /\ CandidateError < 0 => boot'.pc = "reset" \/ boot'.step = boot.step - 1
            /\ boot'.pc = "reset" => boot.step = 5]_vars

\* a candidate of step size 2^16 overshot the reference: the search went on
\* with step size 2^15 at the best code so far
C28_Witness ==
    /\ boot.pc = "sweep" /\ boot.channel = 0
    /\ boot.step = 15
    /\ last.op = "calibrate" /\ last.ret.v = 1 + 2^17 + 2^16
    /\ boot.value = boot.start_value
    /\ boot.start_value = 1 + 2^17
    /\ channels.channel[0].dac = 1 + 2^17 + 2^16

\* C29: during the calibration the best error never increases and is never
\* negative, the best code never decreases, and once a candidate was
\* recorded vref_meas is the nominal voltage of the best code; a candidate
\* that does not improve leaves best error, best code and vref_meas as they
\* were; after the last step size the DAC is written with 0 V and dac_value
\* is 0
C29_BestIsMonotone ==
    /\ [](boot.pc \in {"sweep", "reset"} =>
            /\ boot.best_error >= 0
            /\ boot.improved =>
                  channels.channel[boot.channel].vref_meas
                      = dac_code_voltage(boot.start_value))
    /\ [][boot.pc = "sweep" /\ boot'.channel = boot.channel =>
            /\ boot'.best_error <= boot.best_error
            /\ boot'.start_value >= boot.start_value
            /\ boot'.best_error = boot.best_error =>
                  /\ boot'.start_value = boot.start_value
                  /\ channels'.channel[boot.channel].vref_meas
                        = channels.channel[boot.channel].vref_meas]_vars
    /\ [][boot.pc = "reset" =>
            /\ channels'.channel[boot.channel].dac = 0
            /\ channels'.channel[boot.channel].state.dac_value = 0
            /\ channels'.io = <<[dev |-> "dac", channel |-> boot.channel, value |-> 0]>>]_vars

\* the search of channel 0 ended with the best code 130977 recorded at the
\* finest step size, and the DAC was reset
C29_Witness ==
    /\ last.op = "calibrate_reset" /\ last.channel = 0
    /\ boot.improved
    /\ boot.start_value = 130977
    /\ channels.channel[0].vref_meas = dac_code_voltage(130977)
    /\ channels.channel[0].dac = 0
    /\ State(0).dac_value = 0

----------------------------------------------------------------------------
(* The line reader and the session *)

Terminators == {CR, LF}

\* the non-empty lines that the bytes i.. of a stream complete, in order and
\* in full length, the current line having begun at byte start; partial is
\* the unterminated rest
RECURSIVE StreamLines(_, _, _)
StreamLines(stream, i, start) ==
    IF i > Len(stream) THEN [lines |-> <<>>, partial |-> SubSeq(stream, start, Len(stream))]
    ELSE IF stream[i] \in Terminators
    THEN LET rest == StreamLines(stream, i + 1, i + 1)
         IN  IF start = i THEN rest
             ELSE [lines |-> <<SubSeq(stream, start, i - 1)>> \o rest.lines,
                   partial |-> rest.partial]
    ELSE StreamLines(stream, i + 1, start)

\* the first n bytes of a line, the whole line if it is shorter
FirstBytes(line, n) == SubSeq(line, 1, Min(n, Len(line)))

\* the bytes of the stream consumed so far
Consumed == SubSeq(sess.stream, 1, sess.at)

\* the ends of non-empty lines in the bytes passed to the last call
LineEnds ==
    {i \in 1 .. Len(sess.call.buf) :
        /\ sess.call.buf[i] \in Terminators
        /\ IF i = 1 THEN sess.call.pos > 0 ELSE sess.call.buf[i - 1] \notin Terminators}

\* C31: the commands and parse errors a Session has produced are the parse
\* results of the non-empty lines of the bytes consumed so far, each cut to
\* MAX_LINE_LEN bytes, in order, and the reader holds the unterminated rest,
\* however the stream was split over the calls of feed; each call reports
\* as consumed the bytes up to and including the terminator of the first
\* non-empty line it completes and returns that line's parse result, or
\* reports all bytes and returns Nothing when it completes none
C31_SplitIndependent ==
    LET ref == StreamLines(Consumed, 1, 1)
    IN  /\ sess.out = [k \in 1 .. Len(ref.lines) |->
                         SessionInput_from(Command_parse(
                             line_words(FirstBytes(ref.lines[k], MAX_LINE_LEN))))]
        /\ slice(sess.session.reader.buf, sess.session.reader.pos)
              = FirstBytes(ref.partial, MAX_LINE_LEN)
        /\ IF LineEnds = {}
           THEN /\ sess.call.buf_bytes = Len(sess.call.buf)
                /\ sess.call.input.type = "Nothing"
           ELSE /\ sess.call.buf_bytes = CHOOSE i \in LineEnds : \A j \in LineEnds : i <= j
                /\ sess.call.input.type # "Nothing"

\* the command `output 0 pid` came out of a call that was passed only the
\* end of its line, the beginning having been fed by earlier calls
C31_Witness ==
    /\ sess.call.input.type = "Command"
    /\ sess.call.input.parsed.cmd.type = "OutputPid"
    /\ sess.call.pos > 0
    /\ sess.call.buf_bytes < 13
    /\ Len(sess.out) = 2

\* a stream ending in an unterminated line is consumed whole
PartialLineIsKept ==
    sess.at = Len(sess.stream) =>
        sess.session.reader.pos
            = Min(MAX_LINE_LEN, Len(StreamLines(sess.stream, 1, 1).partial))

\* C37: the write position of the LineReader is never above MAX_LINE_LEN and
\* no access goes outside the buffer (no bounds check fails); a line that
\* is delivered is the first MAX_LINE_LEN bytes of the line received, the
\* later bytes being discarded, and the position is 0 after it
C37_LineWithinBuffer ==
    /\ sess.session.reader.pos \in 0 .. MAX_LINE_LEN
    /\ ~halted
    /\ sess.call.line.some =>
          LET ref == StreamLines(Consumed, 1, 1)
          IN  /\ sess.session.reader.pos = 0
              /\ Len(sess.call.line.v) \in 1 .. MAX_LINE_LEN
              /\ sess.call.line.v
                    = FirstBytes(ref.lines[Len(ref.lines)], MAX_LINE_LEN)

\* a line of MAX_LINE_LEN + 3 bytes was delivered: its first MAX_LINE_LEN
\* bytes, the last of them being the y
C37_Witness ==
    /\ sess.call.line.some
    /\ Len(sess.call.line.v) = MAX_LINE_LEN
    /\ sess.call.line.v[MAX_LINE_LEN] = "y"
    /\ Len(StreamLines(Consumed, 1, 1).lines[1]) = MAX_LINE_LEN + 3
    /\ sess.session.reader.pos = 0

\* the bytes of a sequence
Bytes(line) == {line[i] : i \in 1 .. Len(line)}

\* the bytes that are not those of the connection the socket has now
OfEarlierConnection(bytes) == bytes \ {ConnByte(sess.conn), " "}

\* C38: an unterminated line of one connection is never combined with bytes
\* of a later connection on the same socket: the line buffer of the session
\* and every line handed to the parser hold bytes of the current connection
\* only, the buffer is empty while the socket listens, and a socket starts
\* to listen only in an iteration that found it inactive and reset the
\* session
C38_NoLineAcrossConnections ==
    /\ [](/\ OfEarlierConnection(Bytes(slice(sess.session.reader.buf,
                                            sess.session.reader.pos))) = {}
          /\ sess.call.line.some => OfEarlierConnection(Bytes(sess.call.line.v)) = {}
          /\ sess.socket.state = "Listen" => sess.session.reader.pos = 0)
    /\ [][sess.socket.state # "Listen" /\ sess'.socket.state = "Listen" =>
            /\ sess.socket.state \in {"Closed", "Closing"}
            /\ sess'.session = Session_new]_vars

\* the first connection ended with the unterminated line `a`, which the
\* reset threw away; the second one then delivered the line `b`
C38_Witness ==
    /\ sess.conn = 2
    /\ sess.dropped = <<"a">>
    /\ sess.call.line.some
    /\ sess.call.line.v = <<"b">>
    /\ sess.call.pos = 0

----------------------------------------------------------------------------
(* The postfilter command never fails *)

\* the four presets of the menu
Presets == {VALID_VALUES[i] : i \in 1 .. Len(VALID_VALUES)}

\* C32: PostFilter::closest returns one of the four presets of the menu for
\* every rate, never None and never Invalid, so the postfilter command never
\* ends with Error::PostFilterRate and always writes a preset to the ADC
C32_AlwaysAPreset ==
    /\ \A rate \in PostFilterRates :
          /\ closest(rate).some
          /\ closest(rate).v \in Presets
          /\ \A c \in Channel :
                Handler_set_post_filter(channels, c, rate).ret = "Handled"
    /\ last.op = "postfilter" => channels.postfilter[last.channel] \in Presets

\* a negative rate was requested after the postfilter had been switched
\* off: the slowest preset was written
C32_Witness ==
    /\ last.op = "postfilter"
    /\ last.ret.v = -5000
    /\ channels.postfilter[last.channel] = "F16SPS"
    /\ channels.postfilter[1 - last.channel] = "None"

----------------------------------------------------------------------------
(* Manual setpoints *)

\* the step is a control tick of channel c whose PID is not engaged
DisengagedTick(c) ==
    /\ last'.op = "poll_adc" /\ last'.channel = c
    /\ ~State(c).pid_engaged

\* the control tick of the step left the output of channel c as it was and
\* wrote to no device
OutputKept(c) ==
    /\ channel_state(channels', c).i_set = State(c).i_set
    /\ channel_state(channels', c).dac_value = State(c).dac_value
    /\ channels'.channel[c].dac = channels.channel[c].dac
    /\ channels'.channel[c].shdn = channels.channel[c].shdn
    /\ ~channel_state(channels', c).pid_engaged
    /\ channels'.io = <<>>

\* the control tick of the step advanced the PID history of channel c with
\* the temperature of its sample
HistoryAdvanced(c) ==
    LET before == State(c).pid
        after == channel_state(channels', c).pid
    IN  /\ after.x1 = get_temperature(channel_state(channels', c)).v
        /\ after.x2 = before.x1
        /\ after.y1 = Controller_update(before, after.x1).output
        /\ ~halted'

\* the ISet command of the step cleared pid_engaged, applied the clamped
\* current and powered the actuator up
ManualSetpointInstalled(c) ==
    last'.op = "i_set" /\ last'.channel = c =>
        /\ ~channel_state(channels', c).pid_engaged
        /\ channel_state(channels', c).i_set = last'.ret.v
        /\ channels'.channel[c].shdn

\* C33: while pid_engaged of a channel is false a control tick changes
\* neither its i_set, dac_value, DAC code nor its power state, for a valid
\* sample and for the sentinel, so the setpoint of an ISet command, which
\* clears pid_engaged, applies the clamped current and powers the actuator
\* up, persists over the control ticks; the PID history is advanced on every
\* tick with a valid sample all the same
C33_ManualSetpointPersists ==
    [][\A c \in Channel :
          /\ ManualSetpointInstalled(c)
          /\ DisengagedTick(c) =>
                /\ OutputKept(c)
                /\ channel_state(channels', c).adc_data.some => HistoryAdvanced(c)]_vars

\* what holds of it: the output is kept on every such tick, and the history
\* is advanced on those with a valid sample which the clamp lets return
ManualSetpointPersistsUnlessAborted ==
    [][\A c \in Channel :
          /\ ManualSetpointInstalled(c)
          /\ DisengagedTick(c) =>
                /\ OutputKept(c)
                /\ channel_state(channels', c).adc_data.some /\ ~halted'
                      => HistoryAdvanced(c)
                /\ halted' => clamp_panics(State(c).pid.parameters.output_min,
                                           State(c).pid.parameters.output_max)]_vars

----------------------------------------------------------------------------
(* The bounds of the PID output *)

\* C34: no sequence of PID parameter commands makes a control tick abort:
\* in every reachable state output_min <= output_max holds for the bounds
\* Controller::update passes to the clamp, so update returns a value for
\* every input, also after output_min and output_max were set one by one
C34_BoundsStayOrdered ==
    /\ ~halted
    /\ \A c \in Channel :
          /\ State(c).pid.parameters.output_min <= State(c).pid.parameters.output_max
          /\ \A input \in Temperatures : ~Controller_update(State(c).pid, input).panic

\* what holds of it: a control tick aborts only with output_min above
\* output_max, and the commands other than those for output_min and
\* output_max keep the order of the bounds
BoundsOrderedUnlessSetApart ==
    [][\A c \in Channel :
          LET before == State(c).pid.parameters
              after == channel_state(channels', c).pid.parameters
          IN  /\ halted' /\ ~halted => \E k \in Channel :
                    State(k).pid.parameters.output_min > State(k).pid.parameters.output_max
              /\ (before.output_min <= before.output_max
                    /\ after.output_min > after.output_max)
                    => last'.op \in {"pid", "load"}]_vars

----------------------------------------------------------------------------
(* The channels between a reset command and the reset *)

\* C35: after a Reset or Dfu command was handled both channels stay powered
\* down in every later iteration of the main loop until SCB::sys_reset is
\* called, also when the PID of a channel is engaged and valid samples keep
\* arriving
C35_PoweredDownUntilReset ==
    net.should_reset => \A c \in Channel : ~channels.channel[c].shdn

\* what holds of it: the command powers both channels down, and after it
\* only a control tick of a channel with engaged PID and a valid sample
\* powers a channel up before the reset
OnlyEngagedTickPowersUp ==
    /\ [][net'.should_reset /\ ~net.should_reset =>
            \A c \in Channel : ~channels'.channel[c].shdn]_vars
    /\ [][\A c \in Channel :
            net.resetting /\ channels'.channel[c].shdn /\ ~channels.channel[c].shdn =>
               /\ last'.op = "poll_adc" /\ last'.channel = c
               /\ State(c).pid_engaged
               /\ channel_state(channels', c).adc_data.some]_vars

----------------------------------------------------------------------------
(* Saving and loading a configuration *)

\* what ChannelConfig::new takes of a channel after its own snapshot was
\* applied to the channel
Resaved(c) ==
    LET config == ChannelConfig_new(channels, c)
    IN  ChannelConfig_new(ChannelConfig_apply(config, channels, c).chs, c)

\* C36: the snapshot of a channel, applied to the same channel and taken again,
\* is an equal ChannelConfig: in every state for both channels, and after a
\* configuration was saved and loaded the channel holds what was saved; the
\* snapshot of a channel whose PID is engaged has a setpoint of 0
C36_SaveLoadStable ==
    /\ \A c \in Channel :
          /\ Resaved(c) = ChannelConfig_new(channels, c)
          /\ channel_state(channels, c).pid_engaged
                => ChannelConfig_new(channels, c).i_set = 0
    /\ last.op = "save_load"
          => ChannelConfig_new(channels, last.channel) = last.ret.v.config

\* a configuration saved and loaded while the PID was engaged and had set a
\* current other than 0
C36_Witness ==
    /\ last.op = "save_load"
    /\ channel_state(channels, last.channel).pid_engaged
    /\ last.ret.v.i_set # 0
    /\ last.ret.v.config.i_set = 0

\* a configuration saved and loaded with a target that no f32 holds
SavedTargetRounded ==
    /\ last.op = "save_load"
    /\ last.ret.v.pid_target # last.ret.v.config.pid_target

----------------------------------------------------------------------------
(* The channel of a parsed command *)

\* the last operation parsed a command line into a command
ParsedCommand == last.op = "command" /\ last.ret.v.parsed.ok

\* C39: a Command that Command::parse produces for one channel has channel 0
\* or 1, Load and Save name channel 0 or 1 when they name one, and the handler
\* of the command does not reach unreachable!()
C39_ParsedChannelInRange ==
    ParsedCommand =>
        LET cmd == last.ret.v.parsed.cmd
        IN  /\ cmd.type \in OfOneChannel => cmd.channel \in Channel
            /\ cmd.type \in {"Load", "Save"} /\ cmd.channel.some => cmd.channel.v \in Channel
            /\ last.ret.v.handled # "Panic"

\* a pid command for channel 1 was parsed and handled
C39_Witness ==
    /\ ParsedCommand
    /\ last.ret.v.line = <<"pid", "1", "target", "3">>
    /\ last.ret.v.parsed.cmd.type = "Pid"
    /\ last.ret.v.parsed.cmd.channel = 1
    /\ last.ret.v.handled = "Handled"
    /\ State(1).pid.target = 30

\* a line that names channel 2 was received and is not a command
ChannelTwoRejected ==
    /\ last.op = "command"
    /\ Len(last.ret.v.line) >= 2
    /\ last.ret.v.line[2] = "2"
    /\ ~last.ret.v.parsed.ok

\* every line of the model that names channel 2 is an error
ChannelTwoIsAnError ==
    last.op = "command" /\ Len(last.ret.v.line) >= 2 /\ last.ret.v.line[2] = "2"
        => ~last.ret.v.parsed.ok

\* a save command for a channel and a load command for all were parsed
SaveOfAChannel ==
    /\ ParsedCommand
    /\ last.ret.v.parsed.cmd.type = "Save"
    /\ last.ret.v.parsed.cmd.channel = Some(0)
LoadOfAll ==
    /\ ParsedCommand
    /\ last.ret.v.parsed.cmd.type = "Load"
    /\ ~last.ret.v.parsed.cmd.channel.some

====
